---- MODULE Spec2Model ----
(***************************************************************************)
(* SaveMyMind: the note repository (hooks/useNotes.ts over                 *)
(* utils/noteUtils.ts and AsyncStorage) and the editor session             *)
(* (app/editor.tsx) that drives it through a debounced auto-save.          *)
(*                                                                         *)
(* Strings are sequences of one-character strings.  An asynchronous        *)
(* storage call is two steps: the call (the handler up to its await) and   *)
(* its completion (the storage effect, then the continuation after the     *)
(* await).  AsyncStorage completes calls in the order they were issued, so *)
(* the calls in flight form a queue.  A React render is taken with the     *)
(* state change that causes it; the passive effects of the render run in   *)
(* the same step.                                                          *)
(***************************************************************************)
EXTENDS Integers, Sequences, FiniteSets, TLC

\* ------------------------------------------------------------------ bounds
MaxNow == 2
MaxCalls == 2
MaxInflight == 2

\* ----------------------------------------------------------------- strings
TitleLimit == 50

NewNoteTitle == <<"N", "e", "w", " ", "n", "o", "t", "e">>
NewThoughtTitle == <<"N", "e", "w", " ", "t", "h", "o", "u", "g", "h", "t">>
Ellipsis == <<".", ".", ".">>

IsSpace(c) == c \in {" ", "\n"}

RECURSIVE TrimStart(_)
TrimStart(s) ==
  IF s = <<>> THEN s
  ELSE IF IsSpace(Head(s)) THEN TrimStart(Tail(s)) ELSE s

RECURSIVE TrimEnd(_)
TrimEnd(s) ==
  IF s = <<>> THEN s
  ELSE IF IsSpace(s[Len(s)]) THEN TrimEnd(SubSeq(s, 1, Len(s) - 1)) ELSE s

Trim(s) == TrimEnd(TrimStart(s))

RECURSIVE Split(_)
Split(s) ==
  IF \A i \in 1..Len(s) : s[i] # "\n" THEN <<s>>
  ELSE LET i == CHOOSE k \in 1..Len(s) :
                  s[k] = "\n" /\ \A j \in 1..(k - 1) : s[j] # "\n"
       IN <<SubSeq(s, 1, i - 1)>> \o Split(SubSeq(s, i + 1, Len(s)))

Substring(s, n) == SubSeq(s, 1, IF Len(s) < n THEN Len(s) ELSE n)

\* The cut of a long line without the ellipsis.
TruncateNoEllipsis(line) == Substring(line, TitleLimit)

Truncate(line) ==
  IF Len(line) > TitleLimit THEN Substring(line, TitleLimit) \o Ellipsis ELSE line

RECURSIVE FirstNonEmpty(_)
FirstNonEmpty(lines) ==
  IF lines = <<>> THEN NewNoteTitle
  ELSE IF Trim(Head(lines)) # <<>> THEN Truncate(Trim(Head(lines)))
  ELSE FirstNonEmpty(Tail(lines))

\* generateTitleFromContent without its default for empty content.
generateTitleNoDefault(content) ==
  IF Trim(content) = <<>> THEN Trim(content)
  ELSE Truncate(Trim(Split(Trim(content))[1]))

generateTitleFromContent(content) ==
  IF Trim(content) = <<>> THEN NewNoteTitle
  ELSE LET firstLine == Trim(Split(Trim(content))[1])
       IN IF firstLine = <<>> THEN FirstNonEmpty(Split(Trim(content)))
          ELSE Truncate(firstLine)

\* ------------------------------------------------------------------- notes
NoId == <<>>
NoNote == [id |-> NoId, title |-> <<>>, content |-> <<>>, createdAt |-> 0, updatedAt |-> 0]

generateId(t, r) == <<t, r>>

\* createNote storing the trimmed content.
createNoteTrimsContent(noteInput, t, r) ==
  [id |-> generateId(t, r),
   title |-> IF Trim(noteInput.title) # <<>> THEN Trim(noteInput.title)
             ELSE generateTitleFromContent(noteInput.content),
   content |-> Trim(noteInput.content),
   createdAt |-> t,
   updatedAt |-> t]

createNote(noteInput, t, r) ==
  [id |-> generateId(t, r),
   title |-> IF Trim(noteInput.title) # <<>> THEN Trim(noteInput.title)
             ELSE generateTitleFromContent(noteInput.content),
   content |-> noteInput.content,
   createdAt |-> t,
   updatedAt |-> t]

\* updateNote keeping the title it is given, blank or not.
updateNoteKeepsBlankTitle(existingNote, updates, t) ==
  [id |-> existingNote.id,
   title |-> IF updates.hasTitle THEN updates.title ELSE existingNote.title,
   content |-> IF updates.hasContent THEN updates.content ELSE existingNote.content,
   createdAt |-> existingNote.createdAt,
   updatedAt |-> t]

\* updateNote stamping createdAt instead of updatedAt.
updateNoteStampsCreatedAt(existingNote, updates, t) ==
  LET title0 == IF updates.hasTitle THEN updates.title ELSE existingNote.title
      content0 == IF updates.hasContent THEN updates.content ELSE existingNote.content
  IN [id |-> existingNote.id,
      title |-> IF Trim(title0) = <<>> THEN generateTitleFromContent(content0) ELSE title0,
      content |-> content0,
      createdAt |-> t,
      updatedAt |-> existingNote.updatedAt]

\* updates is a Partial<NoteInput>: hasTitle / hasContent say which fields it holds.
updateNote(existingNote, updates, t) ==
  LET title0 == IF updates.hasTitle THEN updates.title ELSE existingNote.title
      content0 == IF updates.hasContent THEN updates.content ELSE existingNote.content
  IN [id |-> existingNote.id,
      title |-> IF Trim(title0) = <<>> THEN generateTitleFromContent(content0) ELSE title0,
      content |-> content0,
      createdAt |-> existingNote.createdAt,
      updatedAt |-> t]

FullUpdate(ti, co) == [hasTitle |-> TRUE, title |-> ti, hasContent |-> TRUE, content |-> co]

findIndex(ns, id) ==
  IF \E i \in 1..Len(ns) : ns[i].id = id
  THEN CHOOSE i \in 1..Len(ns) : ns[i].id = id /\ \A j \in 1..(i - 1) : ns[j].id # id
  ELSE 0

getNoteById(ns, id) == IF findIndex(ns, id) = 0 THEN NoNote ELSE ns[findIndex(ns, id)]

RECURSIVE FilterOut(_, _)
FilterOut(ns, id) ==
  IF ns = <<>> THEN <<>>
  ELSE IF Head(ns).id = id THEN FilterOut(Tail(ns), id)
  ELSE <<Head(ns)>> \o FilterOut(Tail(ns), id)

\* ------------------------------------------------------------------- codec
\* JSON.stringify writes a Date as its ISO string; the load maps new Date over it.
\* A stored field that is no ISO string (absent, or text Date cannot parse) gives an
\* Invalid Date, whose time value is NaN; new Date does not throw.
ToISO(t) == <<"iso", t>>
InvalidDate == -1
NewDate(s) == IF s[1] = "iso" THEN s[2] ELSE InvalidDate

EncodeNote(n) ==
  [id |-> n.id, title |-> n.title, content |-> n.content,
   createdAt |-> ToISO(n.createdAt), updatedAt |-> ToISO(n.updatedAt)]

\* The load reading each date from the other field.
DecodeNoteSwapsDates(j) ==
  [id |-> j.id, title |-> j.title, content |-> j.content,
   createdAt |-> NewDate(j.updatedAt), updatedAt |-> NewDate(j.createdAt)]

DecodeNote(j) ==
  [id |-> j.id, title |-> j.title, content |-> j.content,
   createdAt |-> NewDate(j.createdAt), updatedAt |-> NewDate(j.updatedAt)]

JSONStringify(ns) == [i \in 1..Len(ns) |-> EncodeNote(ns[i])]

\* The durable blob: absent, a JSON text of a collection, or bytes JSON.parse rejects.
AbsentBlob == [kind |-> "absent", json |-> <<>>]
CorruptBlob == [kind |-> "corrupt", json |-> <<>>]
saveNotesToStorage(ns) == [kind |-> "json", json |-> JSONStringify(ns)]

\* What loadNotesFromStorage returns: the catch turns a failed read or parse into [].
loadNotesFromStorage(b, readOk) ==
  IF ~readOk THEN <<>>
  ELSE IF b.kind = "json" /\ b.json # <<>> THEN [i \in 1..Len(b.json) |-> DecodeNote(b.json[i])]
  ELSE <<>>

\* ------------------------------------------------------------------- state
VARIABLES
  blob,               \* AsyncStorage item savemymind_notes
  now,                \* Date.now()
  notes,              \* useNotes state.notes
  loading,            \* useNotes state.loading
  error,              \* useNotes state.error ("null" when null)
  pending,            \* storage calls in flight, oldest first
  lastCall,           \* history: how the last completed repository call ended
  lastLoad,           \* history: how the last completed load ended
  serial,             \* history: the successful calls applied one after another
  synced,             \* history: the last load or write read or wrote the blob
  calls,              \* history: the number of repository calls issued
  noteId,             \* editor route parameter noteId (NoId for a new note)
  title,              \* editor state title
  content,            \* editor state content
  hasUnsavedChanges,  \* editor state hasUnsavedChanges
  isSaving,           \* editor state isSaving
  isLoading,          \* editor state isLoading
  noteNotFound,       \* editor state noteNotFound
  initialLoadRef,     \* editor ref initialLoadRef.current
  currentNoteIdRef,   \* editor ref currentNoteIdRef.current
  timer,              \* editor ref autoSaveTimeoutRef: the pending timeout's closure
  closed,             \* router.back() has been called: the screen is unmounted
  typed,              \* history: a keystroke or transcription has occurred
  keys,               \* history: the number of keystrokes
  lastFire,           \* history: the last expiry of the debounce timer
  lastInvoke,         \* history: the last create / update the session invoked
  lastSave,           \* history: how the last auto-save ended
  lastExit,           \* history: the last press of the back or trash button
  utilArg,            \* the argument of a call of a function of noteUtils.ts
  utilOut,            \* what the call returned
  OS,                 \* Platform.OS
  modelFile,          \* the file at modelPath: "absent", "partial" or "complete"
  downloaded,         \* AsyncStorage item whisper_model_downloaded ("null" when unset)
  version,            \* AsyncStorage item whisper_model_version ("null" when unset)
  biometricEnabled,   \* AsyncStorage item biometric_enabled is 'true'
  isCheckingAuth,     \* list screen state isCheckingAuth
  authenticationRequired, \* list screen state authenticationRequired
  isAuthenticated,    \* list screen state isAuthenticated
  authenticationError, \* list screen state authenticationError ("null" when null)
  isModelReady,       \* list screen state isModelReady
  isModelDownloading, \* list screen state isModelDownloading
  modelDownloadError, \* list screen state modelDownloadError ("null" when null)
  gatePc,             \* the await the startup sequence of the list screen is suspended at
  lastAuth,           \* history: how the last call of authenticate ended
  lastCheck,          \* history: the last isModelAvailable of validateAndEnsureModel
  lastDownload,       \* history: the last downloadModel of validateAndEnsureModel
  transcribing,       \* the stopRecording of the voice recorder that is awaiting its result
  lastTranscript      \* history: the last call of handleTranscriptionComplete

repoVars == <<blob, now, notes, loading, error, pending, lastCall, lastLoad, serial, synced,
              calls>>

editorVars == <<noteId, title, content, hasUnsavedChanges, isSaving, isLoading, noteNotFound,
                initialLoadRef, currentNoteIdRef, timer, closed, typed, keys, lastFire,
                lastInvoke, lastSave, lastExit>>

utilVars == <<utilArg, utilOut>>

gateVars == <<OS, modelFile, downloaded, version, biometricEnabled, isCheckingAuth,
              authenticationRequired, isAuthenticated, authenticationError, isModelReady,
              isModelDownloading, modelDownloadError, gatePc, lastAuth, lastCheck,
              lastDownload>>

voiceVars == <<transcribing, lastTranscript>>

vars == <<repoVars, editorVars, utilVars, gateVars, voiceVars>>

NoInput == [hasTitle |-> FALSE, title |-> <<>>, hasContent |-> FALSE, content |-> <<>>]

NoCall ==
  [op |-> "none", wrote |-> FALSE, ok |-> TRUE, result |-> "none", memSame |-> TRUE,
   blobSame |-> TRUE, message |-> "none", id |-> NoId, input |-> NoInput, prior |-> NoNote,
   note |-> NoNote, found |-> NoNote, live |-> FALSE, again |-> TRUE, at |-> 0]
\* blob: the stored blob the load was made of.
NoLoad == [done |-> FALSE, failed |-> FALSE, returned |-> <<>>, error |-> "null", blobSame |-> TRUE,
           blob |-> [kind |-> "absent", json |-> <<>>]]

LoadOp ==
  [op |-> "load", notes |-> <<>>, note |-> NoNote, cont |-> "direct", capTitle |-> <<>>,
   input |-> NoInput, prior |-> NoNote, at |-> 0]

Writes == {"create", "update", "delete", "deleteAll"}

WritesInFlight == {i \in 1..Len(pending) : pending[i].op \in Writes}

\* ------------------------------------------------------------------ inputs
\* The values Math.random() contributes to an id.
Randoms == {1, 2}
TitleInputs == {<<>>, <<"a">>}
ContentInputs == {<<>>, <<"b">>}
NoteInputs == {[title |-> <<>>, content |-> <<"b">>], [title |-> <<"a">>, content |-> <<>>],
               [title |-> <<" ">>, content |-> <<" ", "\n">>]}
Updates == {FullUpdate(<<>>, <<"b">>),
            [hasTitle |-> FALSE, title |-> <<>>, hasContent |-> TRUE, content |-> <<>>],
            FullUpdate(<<" ">>, <<"\n", "c">>)}

\* The collection stored before the app starts: one note written at time 0.
StoredNote == [id |-> generateId(0, 1), title |-> <<"a">>, content |-> <<"b">>,
               createdAt |-> 0, updatedAt |-> 0]
StaleId == generateId(0, 0)
InitialBlobs == {AbsentBlob, CorruptBlob, saveNotesToStorage(<<StoredNote>>)}

\* --------------------------------------------------------------- useNotes
\* saveNotes: write through, then publish the collection; the catch records the
\* failure in state.error and does not rethrow.
saveNotesNoRollback(st, ns, ok) ==
  IF ok THEN [blob |-> saveNotesToStorage(ns), notes |-> ns, error |-> "null", threw |-> FALSE]
  ELSE [blob |-> st.blob, notes |-> ns, error |-> "Failed to save notes", threw |-> FALSE]

saveNotes(st, ns, ok) ==
  IF ok THEN [blob |-> saveNotesToStorage(ns), notes |-> ns, error |-> "null", threw |-> FALSE]
  ELSE [blob |-> st.blob, notes |-> st.notes, error |-> "Failed to save notes", threw |-> FALSE]

\* The catch of addNote / updateNoteById / deleteNote / deleteAllNotes around saveNotes.
CatchMessage(op) ==
  CASE op = "create" -> "Failed to create note"
    [] op = "update" -> "Failed to update note"
    [] op = "delete" -> "Failed to delete note"
    [] OTHER -> "Failed to delete all notes"

AfterSave(st, op, ok) ==
  LET r == saveNotes(st, op.notes, ok)
  IN IF r.threw THEN [r EXCEPT !.error = CatchMessage(op.op)] ELSE r

\* loadNotes: loadNotesFromStorage never throws, so the catch of loadNotes is not reached.
loadNotes(st, readOk) ==
  [notes |-> loadNotesFromStorage(st.blob, readOk), loading |-> FALSE, error |-> st.error]

\* updateNoteById with an id that findIndex does not find: Error('Note not found') is
\* thrown before saveNotes, and the catch records it in state.error and rethrows.
updateMissingUpserts(st, id) ==
  [blob |-> saveNotesToStorage(<<[NoNote EXCEPT !.id = id]>> \o st.notes),
   notes |-> <<[NoNote EXCEPT !.id = id]>> \o st.notes, error |-> "null", threw |-> FALSE,
   message |-> "none"]

updateMissing(st, id) ==
  [blob |-> st.blob, notes |-> st.notes, error |-> "Failed to update note: Note not found",
   threw |-> TRUE, message |-> "Note not found"]

\* The calls, up to their await: the storage call each one queues.
addNote(snap, noteInput, t, r, cont, cap) ==
  LET newNote == createNote(noteInput, t, r)
  IN [op |-> "create", notes |-> <<newNote>> \o snap, note |-> newNote,
      cont |-> cont, capTitle |-> cap,
      input |-> FullUpdate(noteInput.title, noteInput.content), prior |-> NoNote,
      at |-> t]

updateNoteById(snap, id, updates, t, cont, cap) ==
  LET noteIndex == findIndex(snap, id)
      updatedNote == updateNote(snap[noteIndex], updates, t)
  IN [op |-> "update", notes |-> [snap EXCEPT ![noteIndex] = updatedNote],
      note |-> updatedNote, cont |-> cont, capTitle |-> cap,
      input |-> updates, prior |-> snap[noteIndex], at |-> t]

deleteNote(snap, id, cont) ==
  [op |-> "delete", notes |-> FilterOut(snap, id), note |-> [NoNote EXCEPT !.id = id],
   cont |-> cont, capTitle |-> <<>>, input |-> NoInput, prior |-> NoNote, at |-> 0]

deleteAllNotes(cont) ==
  [op |-> "deleteAll", notes |-> <<>>, note |-> NoNote, cont |-> cont, capTitle |-> <<>>,
   input |-> NoInput, prior |-> NoNote, at |-> 0]

\* One successful call applied to a collection.
Apply(ns, op) ==
  CASE op.op = "create" -> <<op.note>> \o ns
    [] op.op = "update" ->
         IF findIndex(ns, op.note.id) = 0 THEN ns
         ELSE [ns EXCEPT ![findIndex(ns, op.note.id)] = op.note]
    [] op.op = "delete" -> FilterOut(ns, op.note.id)
    [] OTHER -> <<>>

RepoState == [blob |-> blob, notes |-> notes, error |-> error]

\* ------------------------------------------- the repository, called directly
\* The editor screen, the only caller of the mutating calls, loads once on mount and
\* renders a spinner while state.loading is set (editor.tsx:203); the list screen is
\* the only caller of refreshNotes and never mutates (index.tsx:30-38, 165-171).  So a
\* mutating call comes with no load in flight, and a refresh with no write in flight.
Loaded == ~loading /\ \A i \in 1..Len(pending) : pending[i].op # "load"

CallAddNote ==
  /\ Loaded
  /\ Len(pending) < MaxInflight
  /\ calls < MaxCalls
  /\ calls' = calls + 1
  /\ \E noteInput \in NoteInputs, r \in Randoms :
       pending' = Append(pending, addNote(notes, noteInput, now, r, "direct", <<>>))
  /\ UNCHANGED <<blob, now, notes, loading, error, lastCall, lastLoad, serial, synced>>
  /\ UNCHANGED editorVars
  /\ UNCHANGED utilVars
  /\ UNCHANGED voiceVars
  /\ UNCHANGED gateVars

CallUpdateNoteById ==
  /\ Loaded
  /\ Len(pending) < MaxInflight
  /\ calls < MaxCalls
  /\ calls' = calls + 1
  /\ \E id \in {notes[i].id : i \in 1..Len(notes)}, updates \in Updates :
       pending' = Append(pending, updateNoteById(notes, id, updates, now, "direct", <<>>))
  /\ UNCHANGED <<blob, now, notes, loading, error, lastCall, lastLoad, serial, synced>>
  /\ UNCHANGED editorVars
  /\ UNCHANGED utilVars
  /\ UNCHANGED voiceVars
  /\ UNCHANGED gateVars

\* updateNoteById with an id that findIndex does not find: the throw, caught and rethrown.
CallUpdateMissing ==
  /\ Loaded
  /\ findIndex(notes, StaleId) = 0
  /\ calls < MaxCalls
  /\ calls' = calls + 1
  /\ LET r == updateMissing(RepoState, StaleId)
     IN /\ blob' = r.blob
        /\ notes' = r.notes
        /\ error' = r.error
        /\ lastCall' = [NoCall EXCEPT !.op = "update",
                                      !.result = IF r.threw THEN "threw" ELSE "returned",
                                      !.memSame = (r.notes = notes),
                                      !.blobSame = (r.blob = blob),
                                      !.message = r.message,
                                      !.id = StaleId]
  /\ UNCHANGED <<now, loading, pending, lastLoad, serial, synced>>
  /\ UNCHANGED editorVars
  /\ UNCHANGED utilVars
  /\ UNCHANGED voiceVars
  /\ UNCHANGED gateVars

CallDeleteNote ==
  /\ Loaded
  /\ Len(pending) < MaxInflight
  /\ calls < MaxCalls
  /\ calls' = calls + 1
  /\ \E id \in {notes[i].id : i \in 1..Len(notes)} \cup {StaleId} :
       pending' = Append(pending, deleteNote(notes, id, "direct"))
  /\ UNCHANGED <<blob, now, notes, loading, error, lastCall, lastLoad, serial, synced>>
  /\ UNCHANGED editorVars
  /\ UNCHANGED utilVars
  /\ UNCHANGED voiceVars
  /\ UNCHANGED gateVars

CallDeleteAllNotes ==
  /\ Loaded
  /\ Len(pending) < MaxInflight
  /\ calls < MaxCalls
  /\ calls' = calls + 1
  /\ pending' = Append(pending, deleteAllNotes("direct"))
  /\ UNCHANGED <<blob, now, notes, loading, error, lastCall, lastLoad, serial, synced>>
  /\ UNCHANGED editorVars
  /\ UNCHANGED utilVars
  /\ UNCHANGED voiceVars
  /\ UNCHANGED gateVars

\* refreshNotes: loadNotes up to its await.
CallRefreshNotes ==
  /\ WritesInFlight = {}
  /\ Len(pending) < MaxInflight
  /\ calls < MaxCalls
  /\ calls' = calls + 1
  /\ loading' = TRUE
  /\ error' = "null"
  /\ pending' = Append(pending, LoadOp)
  /\ UNCHANGED <<blob, now, notes, lastCall, lastLoad, serial, synced>>
  /\ UNCHANGED editorVars
  /\ UNCHANGED utilVars
  /\ UNCHANGED voiceVars
  /\ UNCHANGED gateVars

\* AsyncStorage.setItem settles, then saveNotes and the caller continue.
RepoWriteDone ==
  /\ pending # <<>>
  /\ Head(pending).op \in Writes
  /\ Head(pending).cont = "direct"
  /\ \E ok \in BOOLEAN :
       LET op == Head(pending)
           r == AfterSave(RepoState, op, ok)
       IN /\ blob' = r.blob
          /\ notes' = r.notes
          /\ error' = r.error
          /\ lastCall' = [op |-> op.op, wrote |-> TRUE, ok |-> ok,
                          result |-> IF r.threw THEN "threw" ELSE "returned",
                          memSame |-> (r.notes = notes),
                          blobSame |-> (r.blob = blob),
                          message |-> IF r.threw THEN CatchMessage(op.op) ELSE "none",
                          id |-> op.note.id,
                          input |-> op.input,
                          prior |-> op.prior,
                          note |-> op.note,
                          found |-> getNoteById(r.notes, op.note.id),
                          live |-> (findIndex(notes, op.note.id) # 0),
                          again |-> (deleteNote(r.notes, op.note.id, "direct").notes
                                       = r.notes),
                          at |-> op.at]
          /\ serial' = IF ok THEN Apply(serial, op) ELSE serial
          /\ synced' = (ok \/ synced)
  /\ pending' = Tail(pending)
  /\ UNCHANGED <<now, loading, lastLoad, calls>>
  /\ UNCHANGED editorVars
  /\ UNCHANGED utilVars
  /\ UNCHANGED voiceVars
  /\ UNCHANGED gateVars

\* AsyncStorage.getItem settles, then loadNotes continues.
RepoLoadDone ==
  /\ pending # <<>>
  /\ Head(pending).op = "load"
  /\ \E readOk \in BOOLEAN :
       LET r == loadNotes(RepoState, readOk)
       IN /\ notes' = r.notes
          /\ loading' = r.loading
          /\ error' = r.error
          /\ lastLoad' = [done |-> TRUE, failed |-> (~readOk \/ blob.kind = "corrupt"),
                          returned |-> r.notes, error |-> r.error, blobSame |-> TRUE,
                          blob |-> blob]
          /\ serial' = r.notes
          /\ synced' = readOk
  /\ pending' = Tail(pending)
  /\ UNCHANGED <<blob, now, lastCall, calls>>
  /\ UNCHANGED editorVars
  /\ UNCHANGED utilVars
  /\ UNCHANGED voiceVars
  /\ UNCHANGED gateVars

Tick ==
  /\ now < MaxNow
  /\ now' = now + 1
  /\ UNCHANGED <<blob, notes, loading, error, pending, lastCall, lastLoad, serial, synced, calls>>
  /\ UNCHANGED editorVars
  /\ UNCHANGED utilVars
  /\ UNCHANGED voiceVars
  /\ UNCHANGED gateVars

NoTimer == [set |-> FALSE, title |-> <<>>, content |-> <<>>, hasUnsavedChanges |-> FALSE,
            notes |-> <<>>]
\* keys, before: the keystrokes counted at this expiry and at the one before it; open:
\* the editor was on screen.
NoFire == [fired |-> FALSE, dirty |-> FALSE, invoked |-> FALSE, keys |-> 0, before |-> 0,
           open |-> FALSE]
\* creates: the calls of addNote the session has made.
NoInvoke == [op |-> "none", src |-> "none", afterClose |-> FALSE, title |-> <<>>,
             content |-> <<>>, bufTitle |-> <<>>, bufContent |-> <<>>, keys |-> 0,
             creates |-> 0]
\* edited: a keystroke arrived after the session's last create / update was invoked;
\* open: the editor was still mounted when the save ended.
NoSave == [done |-> FALSE, ok |-> TRUE, alerted |-> FALSE, dirtyAfter |-> FALSE,
           bufferKept |-> TRUE, edited |-> FALSE, open |-> FALSE]
NoExit == [by |-> "none", dirty |-> FALSE, hadId |-> FALSE, call |-> "none", id |-> NoId,
           ref |-> NoId,
           title |-> <<>>, content |-> <<>>, bufTitle |-> <<>>, bufContent |-> <<>>,
           settled |-> FALSE, deleted |-> FALSE]

\* After construction: the mount effect of useNotes has called loadNotes.
RepoInit ==
  /\ blob \in InitialBlobs
  /\ now = 1
  /\ notes = <<>>
  /\ loading = TRUE
  /\ error = "null"
  /\ pending = <<LoadOp>>
  /\ lastCall = NoCall
  /\ lastLoad = NoLoad
  /\ serial = <<>>
  /\ synced = FALSE
  /\ calls = 0

CATEGORY_ORDER == <<"Today", "Yesterday", "This week", "This month", "Older">>

NoArg ==
  [fn |-> "none", content |-> <<>>, notes |-> <<>>, date |-> 0, now |-> 0,
   zone |-> [shift |-> 0, day |-> 0], searchTerm |-> <<>>, json |-> <<>>]
NoOut ==
  [done |-> FALSE, title |-> <<>>, notes |-> <<>>, category |-> "none",
   filteredNotes |-> <<>>, categorizedNotes |-> [c \in 1..5 |-> <<>>]]

\* No function of noteUtils.ts is being called on its own.
UtilsIdle ==
  /\ utilArg = NoArg
  /\ utilOut = NoOut

\* What is persisted about the model: nothing on a fresh install.
NoModel == [file |-> "absent", downloaded |-> "null", version |-> "null"]

NoAuth == [done |-> FALSE, hardware |-> "none", success |-> FALSE, error |-> "none"]
NoCheck == [done |-> FALSE, at |-> "none", before |-> NoModel, failed |-> FALSE,
            available |-> FALSE, after |-> NoModel]
NoDownload == [done |-> FALSE, threw |-> FALSE, message |-> "none", started |-> FALSE,
               transferred |-> FALSE, present |-> FALSE, wroteFlag |-> FALSE,
               wroteTag |-> FALSE, swept |-> FALSE, after |-> NoModel]

\* The state of the list screen at construction (index.tsx 41-50).
ListScreenInit ==
  /\ isCheckingAuth = TRUE
  /\ authenticationRequired = FALSE
  /\ isAuthenticated = FALSE
  /\ authenticationError = "null"
  /\ isModelReady = FALSE
  /\ isModelDownloading = FALSE
  /\ modelDownloadError = "null"
  /\ lastAuth = NoAuth
  /\ lastCheck = NoCheck
  /\ lastDownload = NoDownload

\* The closure stopRecording holds while it awaits: the content of the editor render
\* whose handleTranscriptionComplete it was given.
NoRecording == [set |-> FALSE, content |-> <<>>]
NoTranscript == [done |-> FALSE, content |-> <<>>, text |-> <<>>, newContent |-> <<>>,
                 dirty |-> FALSE, timer |-> FALSE]

\* The voice recorder is not transcribing.
VoiceIdle ==
  /\ transcribing = NoRecording
  /\ lastTranscript = NoTranscript

\* The startup sequence of the list screen is not running.
GateIdle ==
  /\ VoiceIdle
  /\ ListScreenInit
  /\ OS = "ios"
  /\ modelFile = NoModel.file
  /\ downloaded = NoModel.downloaded
  /\ version = NoModel.version
  /\ biometricEnabled = FALSE
  /\ gatePc = "unmounted"

\* No editor screen is mounted.
EditorIdle ==
  /\ noteId = NoId
  /\ title = NewThoughtTitle
  /\ content = <<>>
  /\ hasUnsavedChanges = FALSE
  /\ isSaving = FALSE
  /\ isLoading = FALSE
  /\ noteNotFound = FALSE
  /\ initialLoadRef = TRUE
  /\ currentNoteIdRef = NoId
  /\ timer = NoTimer
  /\ closed = FALSE
  /\ typed = FALSE
  /\ keys = 0
  /\ lastFire = NoFire
  /\ lastInvoke = NoInvoke
  /\ lastSave = NoSave
  /\ lastExit = NoExit

\* The repository with no editor on top of it.
InitRepo ==
  /\ RepoInit
  /\ UtilsIdle
  /\ noteId = NoId
  /\ title = NewThoughtTitle
  /\ content = <<>>
  /\ hasUnsavedChanges = FALSE
  /\ isSaving = FALSE
  /\ isLoading = FALSE
  /\ noteNotFound = FALSE
  /\ initialLoadRef = TRUE
  /\ currentNoteIdRef = NoId
  /\ timer = NoTimer
  /\ closed = FALSE
  /\ typed = FALSE
  /\ keys = 0
  /\ lastFire = NoFire
  /\ lastInvoke = NoInvoke
  /\ lastSave = NoSave
  /\ lastExit = NoExit
  /\ GateIdle

NextRepo ==
  \/ CallAddNote
  \/ CallUpdateNoteById
  \/ CallUpdateMissing
  \/ CallDeleteNote
  \/ CallDeleteAllNotes
  \/ CallRefreshNotes
  \/ RepoWriteDone
  \/ RepoLoadDone
  \/ Tick

SpecRepo == InitRepo /\ [][NextRepo]_vars

\* ------------------------------------------------------------ editor.tsx
MaxKeys == 2

\* The component state and refs that the effects read and write.
EdState ==
  [title |-> title, content |-> content, hasUnsavedChanges |-> hasUnsavedChanges,
   noteNotFound |-> noteNotFound, initialLoadRef |-> initialLoadRef,
   currentNoteIdRef |-> currentNoteIdRef, timer |-> timer]

SetEd(s) ==
  /\ title' = s.title
  /\ content' = s.content
  /\ hasUnsavedChanges' = s.hasUnsavedChanges
  /\ noteNotFound' = s.noteNotFound
  /\ initialLoadRef' = s.initialLoadRef
  /\ currentNoteIdRef' = s.currentNoteIdRef
  /\ timer' = s.timer

MountState ==
  [title |-> NewThoughtTitle, content |-> <<>>, hasUnsavedChanges |-> FALSE,
   noteNotFound |-> FALSE, initialLoadRef |-> TRUE, currentNoteIdRef |-> NoId,
   timer |-> NoTimer]

\* The closure of handleAutoSave made in a render: the render's title, content and
\* hasUnsavedChanges, and the state.notes inside its addNote / updateNoteById.
Closure(render, ns) ==
  [set |-> TRUE, title |-> render.title, content |-> render.content,
   hasUnsavedChanges |-> render.hasUnsavedChanges, notes |-> ns]

\* The load effect looking the note up without waiting for notesLoading to clear.
loadEffectBeforeLoaded(s, ns, nid, ld) ==
  IF nid # NoId
  THEN IF findIndex(ns, nid) # 0
       THEN [s EXCEPT !.title = getNoteById(ns, nid).title,
                      !.content = getNoteById(ns, nid).content,
                      !.currentNoteIdRef = nid,
                      !.noteNotFound = FALSE,
                      !.initialLoadRef = FALSE]
       ELSE [s EXCEPT !.noteNotFound = TRUE]
  ELSE [s EXCEPT !.initialLoadRef = FALSE]

\* The effect that loads the note being edited (deps noteId, getNoteById, notesLoading).
loadEffect(s, ns, nid, ld) ==
  IF nid # NoId /\ ~ld
  THEN IF findIndex(ns, nid) # 0
       THEN [s EXCEPT !.title = getNoteById(ns, nid).title,
                      !.content = getNoteById(ns, nid).content,
                      !.currentNoteIdRef = nid,
                      !.noteNotFound = FALSE,
                      !.initialLoadRef = FALSE]
       ELSE [s EXCEPT !.noteNotFound = TRUE]
  ELSE IF nid = NoId THEN [s EXCEPT !.initialLoadRef = FALSE] ELSE s

\* The effect that ends the initial load (deps notesLoading, noteId, noteNotFound).
initialLoadEffect(s, render, nid, ld) ==
  IF ~ld /\ (nid # NoId => ~render.noteNotFound)
  THEN [s EXCEPT !.initialLoadRef = FALSE]
  ELSE s

\* The auto-save effect (deps title, content): a timer that never replaces a pending one.
autoSaveEffectKeepsTimer(s, render, ns) ==
  IF s.initialLoadRef THEN s
  ELSE [s EXCEPT !.hasUnsavedChanges = TRUE,
                 !.timer = IF s.timer.set THEN s.timer ELSE Closure(render, ns)]

\* The auto-save effect (deps title, content): mark the session dirty, clear the
\* pending timeout and set one that calls this render's handleAutoSave.
autoSaveEffect(s, render, ns) ==
  IF s.initialLoadRef THEN s
  ELSE [s EXCEPT !.hasUnsavedChanges = TRUE, !.timer = Closure(render, ns)]

\* A render with state r and the renders its effects cause.  e1, e3, tc: the deps of
\* the load effect, of the initial-load effect, of the auto-save effect changed.
\* State set by an effect shows in the next render; a ref changes at once.
Commit(r, ns, nid, ld, e1, e3, tc) ==
  LET a == IF e1 THEN loadEffect(r, ns, nid, ld) ELSE r
      b == IF e3 THEN initialLoadEffect(a, r, nid, ld) ELSE a
      c == IF tc THEN autoSaveEffect(b, r, ns) ELSE b
      d == IF c.noteNotFound # r.noteNotFound THEN initialLoadEffect(c, c, nid, ld) ELSE c
  IN IF c.title # r.title \/ c.content # r.content THEN autoSaveEffect(d, c, ns) ELSE d

\* handleAutoSave up to its await, run from closure cl: returns at once, throws out
\* of updateNoteById, or queues the storage write of addNote / updateNoteById.
handleAutoSave(cl, ref, t, r, cont) ==
  IF ~cl.hasUnsavedChanges THEN [kind |-> "skip", op |-> LoadOp]
  ELSE IF ref # NoId
       THEN IF findIndex(cl.notes, ref) = 0 THEN [kind |-> "threw", op |-> LoadOp]
            ELSE [kind |-> "queued",
                  op |-> updateNoteById(cl.notes, ref, FullUpdate(Trim(cl.title), cl.content),
                                        t, cont, cl.title)]
       ELSE [kind |-> "queued",
             op |-> addNote(cl.notes, [title |-> Trim(cl.title), content |-> cl.content],
                            t, r, cont, cl.title)]

Invoke(kind, cl, src) ==
  [op |-> kind, src |-> src, afterClose |-> closed, title |-> Trim(cl.title),
   content |-> cl.content, bufTitle |-> title, bufContent |-> content, keys |-> keys,
   creates |-> lastInvoke.creates + (IF kind = "create" THEN 1 ELSE 0)]

InvokedOp(cl, ref) == IF ref # NoId THEN "update" ELSE "create"

\* The editor is on screen: not the spinner, not the not-found alert.
Visible == ~closed /\ ~loading /\ ~isLoading /\ ~initialLoadRef /\ ~noteNotFound

\* The buffer is what the durable blob holds for the session's note.
BufferPersisted ==
  /\ currentNoteIdRef # NoId
  /\ getNoteById(loadNotesFromStorage(blob, TRUE), currentNoteIdRef).title = title
  /\ getNoteById(loadNotesFromStorage(blob, TRUE), currentNoteIdRef).content = content

\* The session on screen is marked as having unsaved changes and holds typed edits
\* that the blob does not.
Dirty == hasUnsavedChanges /\ typed /\ Visible /\ ~BufferPersisted

repoHistory == <<lastCall, lastLoad, serial, synced, calls>>

EditorLoadDone ==
  /\ pending # <<>>
  /\ Head(pending).op = "load"
  /\ ~closed
  /\ \E readOk \in BOOLEAN :
       LET r == loadNotes(RepoState, readOk)
       IN /\ notes' = r.notes
          /\ loading' = r.loading
          /\ error' = r.error
          /\ SetEd(Commit(EdState, r.notes, noteId, r.loading, TRUE, TRUE, FALSE))
  /\ pending' = Tail(pending)
  /\ UNCHANGED <<blob, now, noteId, isSaving, isLoading, closed, typed, keys, lastFire,
                 lastInvoke, lastSave>>
  /\ UNCHANGED lastExit
  /\ UNCHANGED repoHistory
  /\ UNCHANGED utilVars
  /\ UNCHANGED voiceVars
  /\ UNCHANGED gateVars

handleTitleChange ==
  /\ Visible
  /\ keys < MaxKeys
  /\ \E newTitle \in TitleInputs \ {title} :
       SetEd(Commit([EdState EXCEPT !.title = newTitle], notes, noteId, loading,
                    FALSE, FALSE, TRUE))
  /\ typed' = TRUE
  /\ keys' = keys + 1
  /\ UNCHANGED <<blob, now, notes, loading, error, pending, noteId, isSaving, isLoading,
                 closed, lastFire, lastInvoke, lastSave>>
  /\ UNCHANGED lastExit
  /\ UNCHANGED repoHistory
  /\ UNCHANGED utilVars
  /\ UNCHANGED voiceVars
  /\ UNCHANGED gateVars

handleContentChange ==
  /\ Visible
  /\ keys < MaxKeys
  /\ \E newContent \in ContentInputs \ {content} :
       SetEd(Commit([EdState EXCEPT !.content = newContent], notes, noteId, loading,
                    FALSE, FALSE, TRUE))
  /\ typed' = TRUE
  /\ keys' = keys + 1
  /\ UNCHANGED <<blob, now, notes, loading, error, pending, noteId, isSaving, isLoading,
                 closed, lastFire, lastInvoke, lastSave>>
  /\ UNCHANGED lastExit
  /\ UNCHANGED repoHistory
  /\ UNCHANGED utilVars
  /\ UNCHANGED voiceVars
  /\ UNCHANGED gateVars

\* What a run of handleAutoSave with result h leaves behind, up to its await.
AutoSaveStarted(h, cl, src) ==
  /\ pending' = IF h.kind = "queued" THEN Append(pending, h.op) ELSE pending
  /\ isSaving' = IF h.kind = "queued" /\ ~closed THEN TRUE ELSE isSaving
  /\ error' = IF h.kind = "threw" /\ ~closed
              THEN "Failed to update note: Note not found" ELSE error
  /\ lastInvoke' = IF h.kind = "skip" THEN lastInvoke
                   ELSE Invoke(InvokedOp(cl, currentNoteIdRef), cl, src)
  /\ lastSave' = IF h.kind = "threw"
                 THEN [done |-> TRUE, ok |-> FALSE, alerted |-> TRUE,
                       dirtyAfter |-> hasUnsavedChanges, bufferKept |-> TRUE,
                       edited |-> FALSE, open |-> ~closed]
                 ELSE lastSave

\* The debounce timeout expires and calls the handleAutoSave it closed over.
TimerFire ==
  /\ timer.set
  /\ Len(pending) < MaxInflight
  /\ \E r \in Randoms :
       LET h == handleAutoSave(timer, currentNoteIdRef, now, r, "timer")
       IN /\ AutoSaveStarted(h, timer, "timer")
          /\ lastFire' = [fired |-> TRUE, dirty |-> Dirty, invoked |-> (h.kind # "skip"),
                          keys |-> keys, before |-> lastFire.keys, open |-> Visible]
  /\ timer' = NoTimer
  /\ UNCHANGED <<blob, now, notes, loading, noteId, title, content, hasUnsavedChanges,
                 isLoading, noteNotFound, initialLoadRef, currentNoteIdRef, closed, typed,
                 keys>>
  /\ UNCHANGED lastExit
  /\ UNCHANGED repoHistory
  /\ UNCHANGED utilVars
  /\ UNCHANGED voiceVars
  /\ UNCHANGED gateVars

\* handleBack calling router.back() without awaiting handleAutoSave.
BackClosesAtOnce(h) == h.kind \in {"skip", "threw", "queued"}

\* handleBack: router.back() runs in the same step unless handleAutoSave is awaiting
\* a write.
BackCloses(h) == h.kind # "queued"

\* handleBack: save through the current render's handleAutoSave when there are
\* unsaved changes, then router.back().
handleBack ==
  /\ Visible
  /\ Len(pending) < MaxInflight
  /\ \E r \in Randoms :
       LET cl == Closure(EdState, notes)
           h == handleAutoSave(cl, currentNoteIdRef, now, r, "back")
       IN /\ AutoSaveStarted(h, cl, "back")
          /\ closed' = BackCloses(h)
          /\ lastExit' = [by |-> "back", dirty |-> Dirty, hadId |-> (currentNoteIdRef # NoId),
                          call |-> CASE h.kind = "queued" -> h.op.op
                                     [] h.kind = "threw" -> "failed"
                                     [] OTHER -> "none",
                          id |-> h.op.note.id,
                          ref |-> currentNoteIdRef,
                          title |-> h.op.input.title, content |-> h.op.input.content,
                          bufTitle |-> title, bufContent |-> content,
                          settled |-> (h.kind # "queued"), deleted |-> FALSE]
  /\ UNCHANGED <<blob, now, notes, loading, noteId, title, content, hasUnsavedChanges,
                 isLoading, noteNotFound, initialLoadRef, currentNoteIdRef, timer, typed,
                 keys, lastFire>>
  /\ UNCHANGED repoHistory
  /\ UNCHANGED utilVars
  /\ UNCHANGED voiceVars
  /\ UNCHANGED gateVars

\* The state after the await of handleAutoSave, the write having returned note n.
AfterAutoSave(op) ==
  [EdState EXCEPT
     !.currentNoteIdRef = IF op.op = "create" THEN op.note.id ELSE @,
     !.title = IF Trim(op.capTitle) = <<>> /\ op.note.title # op.capTitle
               THEN op.note.title ELSE @,
     !.hasUnsavedChanges = FALSE]

\* router.replace after a create: the route parameter becomes the new note's id.
ReplacedNoteId(op) == IF op.op = "create" THEN op.note.id ELSE noteId

\* AsyncStorage.setItem settles for a write of handleAutoSave: saveNotes, then the
\* rest of updateNoteById / addNote, then the rest of handleAutoSave and handleBack.
AutoSaveDone ==
  /\ pending # <<>>
  /\ Head(pending).cont \in {"timer", "back"}
  /\ \E ok \in BOOLEAN :
       LET op == Head(pending)
           r == AfterSave(RepoState, op, ok)
           s == AfterAutoSave(op)
           nid == ReplacedNoteId(op)
           f == Commit(s, r.notes, nid, loading, ok \/ nid # noteId, nid # noteId,
                       s.title # title)
       IN /\ blob' = r.blob
          /\ IF closed
             THEN /\ UNCHANGED <<notes, error, noteId, title, content, hasUnsavedChanges,
                                 noteNotFound, initialLoadRef, timer, isSaving>>
                  /\ currentNoteIdRef' = IF r.threw THEN currentNoteIdRef
                                         ELSE s.currentNoteIdRef
             ELSE /\ notes' = r.notes
                  /\ error' = r.error
                  /\ isSaving' = FALSE
                  /\ IF r.threw
                     THEN UNCHANGED <<noteId, title, content, hasUnsavedChanges,
                                      noteNotFound, initialLoadRef, currentNoteIdRef, timer>>
                     ELSE noteId' = nid /\ SetEd(f)
          /\ lastSave' = [done |-> TRUE, ok |-> ok, alerted |-> r.threw,
                          dirtyAfter |-> hasUnsavedChanges',
                          bufferKept |-> (closed \/ r.threw
                                            \/ (f.title = title /\ f.content = content)),
                          edited |-> (keys # lastInvoke.keys),
                          open |-> ~closed]
          /\ closed' = (closed \/ op.cont = "back")
          /\ lastExit' = IF op.cont = "back" THEN [lastExit EXCEPT !.settled = TRUE]
                          ELSE lastExit
  /\ pending' = Tail(pending)
  /\ UNCHANGED <<now, loading, isLoading, typed, keys, lastFire, lastInvoke>>
  /\ UNCHANGED repoHistory
  /\ UNCHANGED utilVars
  /\ UNCHANGED voiceVars
  /\ UNCHANGED gateVars

\* The Delete button calling deleteNote whether or not the session has a note id.
deleteCurrentNoteAlways(ref, ns) == [kind |-> "queued", op |-> deleteNote(ns, ref, "trash")]

\* The Delete button of handleDeleteNote: deleteNote for the session's note id, and
\* no call without one.
deleteCurrentNote(ref, ns) ==
  IF ref # NoId THEN [kind |-> "queued", op |-> deleteNote(ns, ref, "trash")]
  ELSE [kind |-> "none", op |-> LoadOp]

\* handleDeleteNote, the Delete button of its alert pressed: nothing to delete for a
\* session without a note id, else deleteNote up to its await.
handleDeleteNote ==
  /\ Visible
  /\ LET d == deleteCurrentNote(currentNoteIdRef, notes)
     IN /\ IF d.kind = "none"
           THEN /\ closed' = TRUE
                /\ UNCHANGED <<pending, isLoading>>
           ELSE /\ Len(pending) < MaxInflight
                /\ pending' = Append(pending, d.op)
                /\ isLoading' = TRUE
                /\ UNCHANGED closed
        /\ lastExit' = [NoExit EXCEPT !.by = "trash",
                                      !.hadId = (currentNoteIdRef # NoId),
                                      !.call = IF d.kind = "none" THEN "none" ELSE d.op.op,
                                      !.id = d.op.note.id,
                                      !.ref = currentNoteIdRef,
                                      !.settled = (d.kind = "none")]
  /\ UNCHANGED <<blob, now, notes, loading, error, noteId, title, content,
                 hasUnsavedChanges, isSaving, noteNotFound, initialLoadRef,
                 currentNoteIdRef, timer, typed, keys, lastFire, lastInvoke, lastSave>>
  /\ UNCHANGED repoHistory
  /\ UNCHANGED utilVars
  /\ UNCHANGED voiceVars
  /\ UNCHANGED gateVars

\* AsyncStorage.setItem settles for the write of deleteNote; then router.back().
DeleteDone ==
  /\ pending # <<>>
  /\ Head(pending).cont = "trash"
  /\ \E ok \in BOOLEAN :
       LET r == AfterSave(RepoState, Head(pending), ok)
       IN /\ blob' = r.blob
          /\ notes' = IF closed THEN notes ELSE r.notes
          /\ error' = IF closed THEN error ELSE r.error
          /\ closed' = (closed \/ ~r.threw)
          /\ lastExit' = IF lastExit.by = "trash"
                          THEN [lastExit EXCEPT !.settled = TRUE, !.deleted = ok]
                          ELSE lastExit
  /\ isLoading' = FALSE
  /\ pending' = Tail(pending)
  /\ UNCHANGED <<now, loading, noteId, title, content, hasUnsavedChanges, isSaving,
                 noteNotFound, initialLoadRef, currentNoteIdRef, timer, typed, keys,
                 lastFire, lastInvoke, lastSave>>
  /\ UNCHANGED repoHistory
  /\ UNCHANGED utilVars
  /\ UNCHANGED voiceVars
  /\ UNCHANGED gateVars

\* The "Thought not found" alert is dismissed: router.back().
NotFoundDismissed ==
  /\ noteNotFound
  /\ ~loading
  /\ ~closed
  /\ closed' = TRUE
  /\ UNCHANGED <<blob, now, notes, loading, error, pending, noteId, title, content,
                 hasUnsavedChanges, isSaving, isLoading, noteNotFound, initialLoadRef,
                 currentNoteIdRef, timer, typed, keys, lastFire, lastInvoke, lastSave>>
  /\ lastExit' = [NoExit EXCEPT !.by = "alert", !.settled = TRUE]
  /\ UNCHANGED repoHistory
  /\ UNCHANGED utilVars
  /\ UNCHANGED voiceVars
  /\ UNCHANGED gateVars

\* What the recogniser returns, trimmed and found to be speech.
TranscribedTexts == {<<"t">>}

\* handleTranscriptionComplete of the render whose content is c.
handleTranscriptionComplete(c, transcribedText) ==
  IF c # <<>> THEN c \o <<"\n", "\n">> \o transcribedText ELSE transcribedText

\* The press that ends a recording: stopRecording of the recorder's current render, which
\* holds the onTranscriptionComplete of the editor's current render, up to its awaits.
stopRecording ==
  /\ Visible
  /\ ~isSaving
  /\ ~transcribing.set
  /\ ~lastTranscript.done
  /\ keys < MaxKeys
  /\ transcribing' = [set |-> TRUE, content |-> content]
  /\ UNCHANGED lastTranscript
  /\ UNCHANGED repoVars
  /\ UNCHANGED editorVars
  /\ UNCHANGED <<utilArg, utilOut>>
  /\ UNCHANGED gateVars

\* The recogniser returns: stopRecording calls the onTranscriptionComplete it holds.
TranscriptionDone ==
  /\ transcribing.set
  /\ \E transcribedText \in TranscribedTexts :
       LET newContent == handleTranscriptionComplete(transcribing.content, transcribedText)
           f == Commit([EdState EXCEPT !.content = newContent], notes, noteId, loading,
                       FALSE, FALSE, newContent # content)
       IN IF closed
          THEN UNCHANGED <<title, content, hasUnsavedChanges, noteNotFound, initialLoadRef,
                           currentNoteIdRef, timer, typed, keys, lastTranscript>>
          ELSE /\ SetEd(f)
               /\ typed' = TRUE
               /\ keys' = keys + 1
               /\ lastTranscript' = [done |-> TRUE, content |-> content,
                                     text |-> transcribedText, newContent |-> f.content,
                                     dirty |-> f.hasUnsavedChanges, timer |-> f.timer.set]
  /\ transcribing' = NoRecording
  /\ UNCHANGED <<noteId, isSaving, isLoading, closed, lastFire, lastInvoke, lastSave,
                 lastExit>>
  /\ UNCHANGED repoVars
  /\ UNCHANGED <<utilArg, utilOut>>
  /\ UNCHANGED gateVars

\* The editor screen mounted on a route with or without a noteId: the first render
\* and its effects, the mount effect of its useNotes having called loadNotes.
InitEditor ==
  /\ RepoInit
  /\ noteId \in {NoId, StoredNote.id, StaleId}
  /\ LET s == Commit(MountState, <<>>, noteId, TRUE, TRUE, TRUE, TRUE)
     IN /\ title = s.title
        /\ content = s.content
        /\ hasUnsavedChanges = s.hasUnsavedChanges
        /\ noteNotFound = s.noteNotFound
        /\ initialLoadRef = s.initialLoadRef
        /\ currentNoteIdRef = s.currentNoteIdRef
        /\ timer = s.timer
  /\ isSaving = FALSE
  /\ isLoading = FALSE
  /\ closed = FALSE
  /\ typed = FALSE
  /\ keys = 0
  /\ lastFire = NoFire
  /\ lastInvoke = NoInvoke
  /\ lastSave = NoSave
  /\ lastExit = NoExit
  /\ UtilsIdle
  /\ GateIdle

NextEditor ==
  \/ EditorLoadDone
  \/ handleTitleChange
  \/ handleContentChange
  \/ TimerFire
  \/ handleBack
  \/ AutoSaveDone
  \/ handleDeleteNote
  \/ DeleteDone
  \/ NotFoundDismissed

SpecEditor == InitEditor /\ [][NextEditor]_vars

\* The editor with its voice recorder in use.
NextVoice ==
  \/ EditorLoadDone
  \/ handleTitleChange
  \/ handleContentChange
  \/ TimerFire
  \/ handleBack
  \/ AutoSaveDone
  \/ handleDeleteNote
  \/ DeleteDone
  \/ NotFoundDismissed
  \/ stopRecording
  \/ TranscriptionDone

SpecVoice == InitEditor /\ [][NextVoice]_vars

\* ------------------------------------------------------------ noteUtils.ts
\* The functions of noteUtils.ts called on their own, each on an argument drawn at
\* the start.  Time is counted in hours; days are counted from a day 0.
MaxDay == 32
DayHours == 24

\* The local time zone: no change of clock (shift 0), or one local day, zone.day,
\* that is an hour longer (the clock is set back, shift 1) or an hour shorter
\* (set forward, shift -1).
Zones ==
  {[shift |-> 0, day |-> 0]}
    \cup {[shift |-> sh, day |-> d] : sh \in {-1, 1}, d \in {1, MaxDay - 8, MaxDay - 1}}

\* new Date(year, month, date): the instant of the local midnight that starts day d.
Midnight(d, zone) ==
  DayHours * d + (IF zone.shift # 0 /\ zone.day < d THEN zone.shift ELSE 0)

\* getFullYear / getMonth / getDate: the local day an instant falls on.
LocalDay(t, zone) ==
  CHOOSE d \in 0..(MaxDay + 1) : Midnight(d, zone) <= t /\ t < Midnight(d + 1, zone)

\* Math.ceil(a / b) for b > 0.
Ceil(a, b) == -((-a) \div b)

getDateCategory(date, t, zone) ==
  LET today == Midnight(LocalDay(t, zone), zone)
      noteDateOnly == Midnight(LocalDay(date, zone), zone)
      diffTime == today - noteDateOnly
      diffDays == Ceil(diffTime, DayHours)
  IN IF diffDays = 0 THEN "Today"
     ELSE IF diffDays = 1 THEN "Yesterday"
     ELSE IF diffDays <= 7 THEN "This week"
     ELSE IF diffDays <= 30 THEN "This month"
     ELSE "Older"

\* String.prototype.toLowerCase, on the letters the inputs use.
toLowerCase(str) ==
  [i \in 1..Len(str) |-> CASE str[i] = "A" -> "a" [] str[i] = "B" -> "b" [] OTHER -> str[i]]

\* String.prototype.includes.
includes(str, sub) ==
  \E i \in 0..(Len(str) - Len(sub)) : SubSeq(str, i + 1, i + Len(sub)) = sub

\* filterNotes comparing the letters as they are written.
filterNotesCaseSensitive(ns, searchTerm) ==
  IF Trim(searchTerm) = <<>> THEN ns
  ELSE SelectSeq(ns, LAMBDA note : includes(note.title, searchTerm)
                                     \/ includes(note.content, searchTerm))

filterNotes(ns, searchTerm) ==
  IF Trim(searchTerm) = <<>> THEN ns
  ELSE LET lowercaseSearch == toLowerCase(searchTerm)
       IN SelectSeq(ns, LAMBDA note : includes(toLowerCase(note.title), lowercaseSearch)
                                        \/ includes(toLowerCase(note.content), lowercaseSearch))

\* Array.prototype.sort with (a, b) => b.updatedAt - a.updatedAt: a stable sort,
\* newest first.
RECURSIVE InsertNewestFirst(_, _)
InsertNewestFirst(note, sorted) ==
  IF sorted = <<>> THEN <<note>>
  ELSE IF note.updatedAt >= Head(sorted).updatedAt THEN <<note>> \o sorted
  ELSE <<Head(sorted)>> \o InsertNewestFirst(note, Tail(sorted))

RECURSIVE SortNewestFirst(_)
SortNewestFirst(ns) ==
  IF ns = <<>> THEN <<>> ELSE InsertNewestFirst(Head(ns), SortNewestFirst(Tail(ns)))

\* categorizeNotes leaving each bucket in the order of the collection.
categorizeNotesUnsorted(ns, t, zone) ==
  [c \in 1..5 |->
     SelectSeq(ns, LAMBDA note : getDateCategory(note.updatedAt, t, zone) = CATEGORY_ORDER[c])]

\* categorizeNotes: the buckets in the order of CATEGORY_ORDER.
categorizeNotes(ns, t, zone) ==
  [c \in 1..5 |->
     SortNewestFirst(
       SelectSeq(ns, LAMBDA note : getDateCategory(note.updatedAt, t, zone)
                                     = CATEGORY_ORDER[c]))]

Repeat(c, n) == [i \in 1..n |-> c]

\* Contents around the title limit: leading blank lines, a first line of n characters
\* or of n + 2 with a blank inside, a second line.
TitleContents ==
  {pre \o Repeat("a", n) \o post :
     pre \in {<<>>, <<" ">>, <<"\n">>, <<" ", "\n", " ">>},
     n \in {0, 1, TitleLimit - 2, TitleLimit - 1, TitleLimit, TitleLimit + 1},
     post \in {<<>>, <<" ">>, <<"\n", "b">>, <<" ", "c">>, <<" ", "c", " ", "\n", "d">>}}

CodecNotes ==
  {[id |-> generateId(1, r), title |-> ti, content |-> co, createdAt |-> c, updatedAt |-> u] :
     r \in Randoms, ti \in {<<"a">>, NewNoteTitle}, co \in {<<>>, <<"b", "\n">>},
     c \in 0..1, u \in 1..MaxNow}

Collections ==
  {<<>>} \cup {<<n>> : n \in CodecNotes} \cup {<<n, StoredNote>> : n \in CodecNotes}

\* A note stamped at the start or in the last hour of a day, read at the start or in
\* the last hour of one of the two last days.
DateArgs ==
  {[NoArg EXCEPT !.fn = "getDateCategory",
                 !.date = Midnight(d, z) + h,
                 !.now = Midnight(n, z) + g,
                 !.zone = z] :
     z \in Zones, d \in 0..MaxDay, n \in {MaxDay - 1, MaxDay}, h \in {0, DayHours - 2},
     g \in {0, DayHours - 2}}

\* Notes of the five categories for a list read on day MaxDay, two of them stamped
\* the same day.
ListedNote(d, h, ti, co) ==
  [id |-> generateId(DayHours * d + h, 1), title |-> ti, content |-> co,
   createdAt |-> 0, updatedAt |-> DayHours * d + h]

ListedNotes ==
  {ListedNote(MaxDay, 0, <<"A", "b">>, <<>>),
   ListedNote(MaxDay, 1, <<"c">>, <<"a", " ", "b">>),
   ListedNote(MaxDay - 1, 0, <<"c">>, <<>>),
   ListedNote(MaxDay - 1, DayHours - 2, <<"a">>, <<"B">>),
   ListedNote(MaxDay - 7, 0, <<"A", "b">>, <<"c">>),
   ListedNote(MaxDay - 8, 0, <<"c">>, <<"a", "b">>),
   ListedNote(0, 0, <<"b">>, <<"c">>)}

SearchTerms == {<<>>, <<" ">>, <<"a">>, <<"B">>, <<"a", " ">>, <<"a", "B">>, <<"z">>}

ListArgs ==
  {[NoArg EXCEPT !.fn = "categorizedNotes", !.notes = ns, !.searchTerm = st,
                 !.now = DayHours * MaxDay + g] :
     ns \in {<<>>} \cup {<<a>> : a \in ListedNotes}
              \cup {<<a, b>> : a \in ListedNotes, b \in ListedNotes}
              \cup {<<a, b, c>> : a \in ListedNotes, b \in ListedNotes, c \in ListedNotes},
     st \in SearchTerms, g \in {2}}

\* Records of a stored JSON text: well-formed ones, one without createdAt, one whose
\* updatedAt is text that is no date.
WellFormedRecords == {EncodeNote(StoredNote), EncodeNote(ListedNote(1, 1, <<"a">>, <<>>))}
MalformedRecords ==
  {[EncodeNote(ListedNote(2, 1, <<"c">>, <<>>)) EXCEPT !.createdAt = <<"undefined", 0>>],
   [EncodeNote(ListedNote(3, 1, <<"d">>, <<>>)) EXCEPT !.updatedAt = <<"text", 0>>]}
StoredRecords == WellFormedRecords \cup MalformedRecords

LoadArgs ==
  {[NoArg EXCEPT !.fn = "loadNotesFromStorage", !.json = j] :
     j \in {<<a>> : a \in StoredRecords}
             \cup {<<a, b>> : a \in StoredRecords, b \in StoredRecords}}

UtilArgs ==
  {[NoArg EXCEPT !.fn = "generateTitleFromContent", !.content = c] : c \in TitleContents}
    \cup {[NoArg EXCEPT !.fn = "codec", !.notes = ns] : ns \in Collections}
    \cup {a \in DateArgs : a.date <= a.now}
    \cup ListArgs
    \cup LoadArgs

CallGenerateTitleFromContent ==
  /\ utilArg.fn = "generateTitleFromContent"
  /\ ~utilOut.done
  /\ utilOut' = [NoOut EXCEPT !.done = TRUE,
                              !.title = generateTitleFromContent(utilArg.content)]
  /\ UNCHANGED <<utilArg, repoVars, editorVars>>
  /\ UNCHANGED gateVars
  /\ UNCHANGED voiceVars

\* saveNotesToStorage, then loadNotesFromStorage of what it wrote.
CallSaveThenLoad ==
  /\ utilArg.fn = "codec"
  /\ ~utilOut.done
  /\ blob' = saveNotesToStorage(utilArg.notes)
  /\ utilOut' = [NoOut EXCEPT !.done = TRUE,
                              !.notes = loadNotesFromStorage(blob', TRUE)]
  /\ UNCHANGED <<utilArg, now, notes, loading, error, pending, lastCall, lastLoad, serial,
                 synced, calls, editorVars>>
  /\ UNCHANGED gateVars
  /\ UNCHANGED voiceVars

CallGetDateCategory ==
  /\ utilArg.fn = "getDateCategory"
  /\ ~utilOut.done
  /\ utilOut' = [NoOut EXCEPT !.done = TRUE,
                              !.category = getDateCategory(utilArg.date, utilArg.now,
                                                           utilArg.zone)]
  /\ UNCHANGED <<utilArg, repoVars, editorVars>>
  /\ UNCHANGED gateVars
  /\ UNCHANGED voiceVars

\* loadNotesFromStorage of a stored JSON text.
CallLoadNotesFromStorage ==
  /\ utilArg.fn = "loadNotesFromStorage"
  /\ ~utilOut.done
  /\ blob' = [kind |-> "json", json |-> utilArg.json]
  /\ utilOut' = [NoOut EXCEPT !.done = TRUE,
                              !.notes = loadNotesFromStorage(blob', TRUE)]
  /\ UNCHANGED <<utilArg, now, notes, loading, error, pending, lastCall, lastLoad, serial,
                 synced, calls, editorVars>>
  /\ UNCHANGED gateVars
  /\ UNCHANGED voiceVars

\* A render of useNotes: filteredNotes and categorizedNotes of state.notes.
CallCategorizedNotes ==
  /\ utilArg.fn = "categorizedNotes"
  /\ ~utilOut.done
  /\ LET filteredNotes == filterNotes(utilArg.notes, utilArg.searchTerm)
     IN utilOut' = [NoOut EXCEPT !.done = TRUE,
                                 !.filteredNotes = filteredNotes,
                                 !.categorizedNotes =
                                    categorizeNotes(filteredNotes, utilArg.now, utilArg.zone)]
  /\ UNCHANGED <<utilArg, repoVars, editorVars>>
  /\ UNCHANGED gateVars
  /\ UNCHANGED voiceVars

\* No hook is mounted.
RepoIdle ==
  /\ blob = AbsentBlob
  /\ now = 1
  /\ notes = <<>>
  /\ loading = TRUE
  /\ error = "null"
  /\ pending = <<>>
  /\ lastCall = NoCall
  /\ lastLoad = NoLoad
  /\ serial = <<>>
  /\ synced = FALSE
  /\ calls = 0

InitUtils ==
  /\ RepoIdle
  /\ EditorIdle
  /\ utilArg \in UtilArgs
  /\ utilOut = NoOut
  /\ GateIdle

NextUtils ==
  \/ CallGenerateTitleFromContent
  \/ CallSaveThenLoad
  \/ CallGetDateCategory
  \/ CallCategorizedNotes
  \/ CallLoadNotesFromStorage

SpecUtils == InitUtils /\ [][NextUtils]_vars

\* ------------------------------------- modelDownloadService.ts, biometricAuth
CURRENT_MODEL_VERSION == "1.0.0"
PreviousModelVersion == "0.9.0"

\* The file-system or AsyncStorage call of isModelAvailable that rejects, if it is reached.
CheckFaults == {"none", "getInfoAsync", "getItem(version)", "deleteAsync",
                "removeItem(downloaded)", "removeItem(version)", "getItem(downloaded)"}

\* The branch of isModelAvailable for a stored version other than the current one, with the
\* tag left in place.
VersionMismatchKeepsTag(st, f) ==
  IF f = "deleteAsync" THEN [available |-> FALSE, st |-> st, failed |-> TRUE]
  ELSE IF f = "removeItem(downloaded)"
  THEN [available |-> FALSE, st |-> [st EXCEPT !.file = "absent"], failed |-> TRUE]
  ELSE [available |-> FALSE,
        st |-> [st EXCEPT !.file = "absent", !.downloaded = "null"],
        failed |-> (f = "removeItem(version)")]

\* The branch of isModelAvailable for a stored version other than the current one: the
\* file is deleted, then the two items are removed; a rejection leaves the rest undone.
VersionMismatch(st, f) ==
  IF f = "deleteAsync" THEN [available |-> FALSE, st |-> st, failed |-> TRUE]
  ELSE IF f = "removeItem(downloaded)"
  THEN [available |-> FALSE, st |-> [st EXCEPT !.file = "absent"], failed |-> TRUE]
  ELSE IF f = "removeItem(version)"
  THEN [available |-> FALSE,
        st |-> [st EXCEPT !.file = "absent", !.downloaded = "null"], failed |-> TRUE]
  ELSE [available |-> FALSE, st |-> NoModel, failed |-> FALSE]

\* isModelAvailable: st is what is persisted, f the call that rejects. The catch turns every
\* rejection into false.
isModelAvailable(os, st, f) ==
  IF os = "web" THEN [available |-> FALSE, st |-> st, failed |-> FALSE]
  ELSE IF f = "getInfoAsync" THEN [available |-> FALSE, st |-> st, failed |-> TRUE]
  ELSE IF st.file = "absent" THEN [available |-> FALSE, st |-> st, failed |-> FALSE]
  ELSE IF f = "getItem(version)" THEN [available |-> FALSE, st |-> st, failed |-> TRUE]
  ELSE IF st.version # CURRENT_MODEL_VERSION THEN VersionMismatch(st, f)
  ELSE IF f = "getItem(downloaded)" THEN [available |-> FALSE, st |-> st, failed |-> TRUE]
  ELSE [available |-> (st.downloaded = "true"), st |-> st, failed |-> FALSE]

\* How downloadAsync ends: the whole file written, a result without a file, no result, a
\* rejection after part of the file was written, a rejection before anything was written.
Transfers == {"complete", "missing", "noResult", "interrupted", "refused"}

\* The call after the transfer that rejects, if it is reached.
DownloadFaults == {"none", "getInfoAsync", "setItem(downloaded)", "setItem(version)"}

\* The call of the cleanup that rejects.
CleanupFaults == {"none", "deleteAsync", "removeItem(downloaded)"}

Transferred(st, t) ==
  [st EXCEPT !.file = CASE t = "complete" -> "complete"
                        [] t = "missing" -> "absent"
                        [] t = "refused" -> st.file
                        [] OTHER -> "partial"]

\* The cleanup in the catch of downloadModel: its own rejection is swallowed.
CleanUp(st, c) ==
  IF c = "deleteAsync" THEN st
  ELSE IF c = "removeItem(downloaded)" THEN [st EXCEPT !.file = "absent"]
  ELSE [st EXCEPT !.file = "absent", !.downloaded = "null"]

\* downloadModel without the verification that the file exists.
downloadModelUnverified(os, st, f, t, g, c) ==
  LET a == isModelAvailable(os, st, f)
      s1 == Transferred(a.st, t)
      s2 == [s1 EXCEPT !.downloaded = "true"]
      s3 == [s2 EXCEPT !.version = CURRENT_MODEL_VERSION]
      Failure(s, m, tr, pr, wf) ==
        [NoDownload EXCEPT !.done = TRUE, !.threw = TRUE, !.message = m, !.started = TRUE,
                           !.transferred = tr, !.present = pr, !.wroteFlag = wf,
                           !.swept = (c = "none"), !.after = CleanUp(s, c)]
  IN IF os = "web"
     THEN [NoDownload EXCEPT !.done = TRUE, !.threw = TRUE, !.after = st,
                             !.message = "Model download not supported on web platform"]
     ELSE IF a.available THEN [NoDownload EXCEPT !.done = TRUE, !.after = a.st]
     ELSE IF t \in {"interrupted", "refused"}
     THEN Failure(s1, "Download failed", FALSE, FALSE, FALSE)
     ELSE IF t = "noResult"
     THEN Failure(s1, "Download failed - no result returned", FALSE, FALSE, FALSE)
     ELSE IF g = "setItem(downloaded)"
     THEN Failure(s1, "setItem failed", TRUE, s1.file # "absent", FALSE)
     ELSE IF g = "setItem(version)"
     THEN Failure(s2, "setItem failed", TRUE, s1.file # "absent", TRUE)
     ELSE [NoDownload EXCEPT !.done = TRUE, !.started = TRUE, !.transferred = TRUE,
                             !.present = (s1.file # "absent"), !.wroteFlag = TRUE,
                             !.wroteTag = TRUE, !.after = s3]

\* downloadModel: st is what is persisted, f the rejection of its isModelAvailable, t the end
\* of the transfer, g the rejection after it, c the rejection of the cleanup.
downloadModel(os, st, f, t, g, c) ==
  LET a == isModelAvailable(os, st, f)
      s1 == Transferred(a.st, t)
      s2 == [s1 EXCEPT !.downloaded = "true"]
      s3 == [s2 EXCEPT !.version = CURRENT_MODEL_VERSION]
      Failure(s, m, tr, pr, wf) ==
        [NoDownload EXCEPT !.done = TRUE, !.threw = TRUE, !.message = m, !.started = TRUE,
                           !.transferred = tr, !.present = pr, !.wroteFlag = wf,
                           !.swept = (c = "none"), !.after = CleanUp(s, c)]
  IN IF os = "web"
     THEN [NoDownload EXCEPT !.done = TRUE, !.threw = TRUE, !.after = st,
                             !.message = "Model download not supported on web platform"]
     ELSE IF a.available THEN [NoDownload EXCEPT !.done = TRUE, !.after = a.st]
     ELSE IF t \in {"interrupted", "refused"}
     THEN Failure(s1, "Download failed", FALSE, FALSE, FALSE)
     ELSE IF t = "noResult"
     THEN Failure(s1, "Download failed - no result returned", FALSE, FALSE, FALSE)
     ELSE IF g = "getInfoAsync"
     THEN Failure(s1, "getInfoAsync failed", TRUE, s1.file # "absent", FALSE)
     ELSE IF s1.file = "absent"
     THEN Failure(s1, "Download completed but file not found", TRUE, FALSE, FALSE)
     ELSE IF g = "setItem(downloaded)"
     THEN Failure(s1, "setItem failed", TRUE, TRUE, FALSE)
     ELSE IF g = "setItem(version)"
     THEN Failure(s2, "setItem failed", TRUE, TRUE, TRUE)
     ELSE [NoDownload EXCEPT !.done = TRUE, !.started = TRUE, !.transferred = TRUE,
                             !.present = TRUE, !.wroteFlag = TRUE, !.wroteTag = TRUE,
                             !.after = s3]

\* isBiometricEnabled: a rejected read is caught and answered with false.
isBiometricEnabled(enabled, readOk) == readOk /\ enabled

\* What hasHardwareAsync / isEnrolledAsync find: a rejection, no hardware, hardware without
\* enrolled biometrics, hardware with enrolled biometrics.
Hardware == {"rejects", "absent", "unenrolled", "enrolled"}

\* How authenticateAsync ends.
Prompts == {"success", "user_cancel", "lockout", "rejects"}

\* checkCapabilities: its catch answers a rejection with isAvailable false.
checkCapabilities(hw) ==
  [isAvailable |-> (hw \in {"unenrolled", "enrolled"}), isEnrolled |-> (hw = "enrolled")]

authenticate(hw, prompt) ==
  LET capabilities == checkCapabilities(hw)
  IN IF ~capabilities.isAvailable THEN [success |-> FALSE, error |-> "not_available"]
     ELSE IF ~capabilities.isEnrolled THEN [success |-> FALSE, error |-> "not_enrolled"]
     ELSE IF prompt = "rejects" THEN [success |-> FALSE, error |-> "unknown"]
     ELSE IF prompt = "success" THEN [success |-> TRUE, error |-> "none"]
     ELSE [success |-> FALSE, error |-> prompt]

getErrorMessage(e) ==
  CASE e = "not_available" -> "Biometric authentication is not available on this device."
    [] e = "not_enrolled" -> "No biometric data is enrolled on this device."
    [] e = "user_cancel" -> "Authentication was cancelled by the user."
    [] e = "lockout" -> "Too many failed attempts. Please try again later."
    [] OTHER -> "An unknown error occurred during authentication."

\* --------------------------------------------------------------- index.tsx
Persisted == [file |-> modelFile, downloaded |-> downloaded, version |-> version]

SetPersisted(st) ==
  /\ modelFile' = st.file
  /\ downloaded' = st.downloaded
  /\ version' = st.version

\* useFocusEffect: once isModelReady and isAuthenticated both hold, refreshNotes is called,
\* which is loadNotes up to its await.
FocusEffect(ready) ==
  /\ IF ready
     THEN /\ loading' = TRUE
          /\ error' = "null"
          /\ pending' = Append(pending, LoadOp)
     ELSE UNCHANGED <<loading, error, pending>>
  /\ UNCHANGED <<blob, now, notes, lastCall, lastLoad, serial, synced, calls>>

\* validateAndEnsureModel up to its first await; isAuthenticated has been set by the caller.
validateAndEnsureModel ==
  IF OS = "web"
  THEN /\ isModelReady' = TRUE
       /\ gatePc' = "idle"
       /\ FocusEffect(TRUE)
  ELSE /\ isModelReady' = isModelReady
       /\ gatePc' = "isModelAvailable"
       /\ FocusEffect(FALSE)

\* The catch of validateAndEnsureModel.
ValidationFailed(message) ==
  /\ isModelDownloading' = FALSE
  /\ modelDownloadError' = message
  /\ isModelReady' = isModelReady
  /\ gatePc' = "idle"
  /\ FocusEffect(FALSE)

\* checkAuthenticationAndModel, called by the mount effect: isBiometricEnabled settles.
checkAuthenticationAndModel ==
  /\ gatePc = "isBiometricEnabled"
  /\ \E readOk \in BOOLEAN :
       IF isBiometricEnabled(biometricEnabled, readOk)
       THEN /\ authenticationRequired' = TRUE
            /\ isCheckingAuth' = FALSE
            /\ gatePc' = "idle"
            /\ UNCHANGED <<isAuthenticated, isModelReady>>
            /\ FocusEffect(FALSE)
       ELSE /\ isAuthenticated' = TRUE
            /\ authenticationRequired' = FALSE
            /\ isCheckingAuth' = FALSE
            /\ validateAndEnsureModel
  /\ UNCHANGED <<OS, modelFile, downloaded, version, biometricEnabled, authenticationError,
                 isModelDownloading, modelDownloadError, lastAuth, lastCheck, lastDownload>>
  /\ UNCHANGED editorVars
  /\ UNCHANGED utilVars
  /\ UNCHANGED voiceVars

\* The authentication screen is what the list screen renders.
AuthScreenShown == ~isCheckingAuth /\ authenticationRequired /\ ~isAuthenticated

\* handleBiometricAuthentication up to its await.
handleBiometricAuthentication ==
  /\ AuthScreenShown
  /\ gatePc = "idle"
  /\ authenticationError' = "null"
  /\ gatePc' = "authenticate"
  /\ UNCHANGED <<OS, modelFile, downloaded, version, biometricEnabled, isCheckingAuth,
                 authenticationRequired, isAuthenticated, isModelReady, isModelDownloading,
                 modelDownloadError, lastAuth, lastCheck, lastDownload>>
  /\ UNCHANGED repoVars
  /\ UNCHANGED editorVars
  /\ UNCHANGED utilVars
  /\ UNCHANGED voiceVars

\* BiometricAuthService.authenticate settles, then handleBiometricAuthentication continues.
AuthenticateDone ==
  /\ gatePc = "authenticate"
  /\ \E hw \in Hardware, prompt \in Prompts :
       LET result == authenticate(hw, prompt)
       IN /\ lastAuth' = [done |-> TRUE, hardware |-> hw, success |-> result.success,
                          error |-> result.error]
          /\ IF result.success
             THEN /\ isAuthenticated' = TRUE
                  /\ authenticationRequired' = FALSE
                  /\ authenticationError' = authenticationError
                  /\ validateAndEnsureModel
             ELSE /\ authenticationError' = getErrorMessage(result.error)
                  /\ gatePc' = "idle"
                  /\ UNCHANGED <<isAuthenticated, authenticationRequired, isModelReady>>
                  /\ FocusEffect(FALSE)
  /\ UNCHANGED <<OS, modelFile, downloaded, version, biometricEnabled, isCheckingAuth,
                 isModelDownloading, modelDownloadError, lastCheck, lastDownload>>
  /\ UNCHANGED editorVars
  /\ UNCHANGED utilVars
  /\ UNCHANGED voiceVars

\* The first isModelAvailable of validateAndEnsureModel settles.
ModelCheckDone ==
  /\ gatePc = "isModelAvailable"
  /\ \E f \in CheckFaults :
       LET r == isModelAvailable(OS, Persisted, f)
       IN /\ SetPersisted(r.st)
          /\ lastCheck' = [done |-> TRUE, at |-> "validate", before |-> Persisted,
                           failed |-> r.failed, available |-> r.available, after |-> r.st]
          /\ IF r.available
             THEN /\ isModelReady' = TRUE
                  /\ gatePc' = "idle"
                  /\ UNCHANGED <<isModelDownloading, modelDownloadError>>
                  /\ FocusEffect(TRUE)
             ELSE /\ isModelDownloading' = TRUE
                  /\ modelDownloadError' = "null"
                  /\ isModelReady' = isModelReady
                  /\ gatePc' = "downloadModel"
                  /\ FocusEffect(FALSE)
  /\ UNCHANGED <<OS, biometricEnabled, isCheckingAuth, authenticationRequired,
                 isAuthenticated, authenticationError, lastAuth, lastDownload>>
  /\ UNCHANGED editorVars
  /\ UNCHANGED utilVars
  /\ UNCHANGED voiceVars

\* downloadModel settles.
DownloadDone ==
  /\ gatePc = "downloadModel"
  /\ \E f \in CheckFaults, t \in Transfers, g \in DownloadFaults, c \in CleanupFaults :
       LET r == downloadModel(OS, Persisted, f, t, g, c)
       IN /\ SetPersisted(r.after)
          /\ lastDownload' = r
          /\ IF r.threw
             THEN ValidationFailed(r.message)
             ELSE /\ gatePc' = "revalidate"
                  /\ UNCHANGED <<isModelDownloading, modelDownloadError, isModelReady>>
                  /\ FocusEffect(FALSE)
  /\ UNCHANGED <<OS, biometricEnabled, isCheckingAuth, authenticationRequired,
                 isAuthenticated, authenticationError, lastAuth, lastCheck>>
  /\ UNCHANGED editorVars
  /\ UNCHANGED utilVars
  /\ UNCHANGED voiceVars

\* The isModelAvailable after the download settles.
ModelRecheckDone ==
  /\ gatePc = "revalidate"
  /\ \E f \in CheckFaults :
       LET r == isModelAvailable(OS, Persisted, f)
       IN /\ SetPersisted(r.st)
          /\ lastCheck' = [done |-> TRUE, at |-> "revalidate", before |-> Persisted,
                           failed |-> r.failed, available |-> r.available, after |-> r.st]
          /\ IF r.available
             THEN /\ isModelDownloading' = FALSE
                  /\ isModelReady' = TRUE
                  /\ modelDownloadError' = modelDownloadError
                  /\ gatePc' = "idle"
                  /\ FocusEffect(TRUE)
             ELSE ValidationFailed("Model download completed but validation failed")
  /\ UNCHANGED <<OS, biometricEnabled, isCheckingAuth, authenticationRequired,
                 isAuthenticated, authenticationError, lastAuth, lastDownload>>
  /\ UNCHANGED editorVars
  /\ UNCHANGED utilVars
  /\ UNCHANGED voiceVars

\* The overlay "Installing Voice Recognition" is what the list screen renders.
ModelOverlayShown == ~isCheckingAuth /\ ~AuthScreenShown /\ ~isModelReady

\* The notes, the search bar and the button that opens the editor are rendered.
NotesListShown == ~isCheckingAuth /\ ~AuthScreenShown /\ isModelReady /\ ~loading

\* retryModelDownload, the button "Retry Installation" of the overlay.
retryModelDownload ==
  /\ ModelOverlayShown
  /\ modelDownloadError # "null"
  /\ gatePc = "idle"
  /\ modelDownloadError' = "null"
  /\ lastDownload' = NoDownload
  /\ validateAndEnsureModel
  /\ UNCHANGED <<OS, modelFile, downloaded, version, biometricEnabled, isCheckingAuth,
                 authenticationRequired, isAuthenticated, authenticationError,
                 isModelDownloading, lastAuth, lastCheck>>
  /\ UNCHANGED editorVars
  /\ UNCHANGED utilVars
  /\ UNCHANGED voiceVars

\* What an installation leaves persisted: nothing yet, the current model, the model of the
\* previous version.
Installations ==
  {NoModel,
   [file |-> "complete", downloaded |-> "true", version |-> CURRENT_MODEL_VERSION],
   [file |-> "complete", downloaded |-> "true", version |-> PreviousModelVersion]}

\* The list screen has been mounted: the mount effect of useNotes has called loadNotes and
\* the mount effect of the screen has called checkAuthenticationAndModel.
InitStartup ==
  /\ VoiceIdle
  /\ RepoInit
  /\ EditorIdle
  /\ UtilsIdle
  /\ ListScreenInit
  /\ OS \in {"ios", "web"}
  /\ \E st \in Installations :
       /\ modelFile = st.file
       /\ downloaded = st.downloaded
       /\ version = st.version
  /\ biometricEnabled \in BOOLEAN
  /\ gatePc = "isBiometricEnabled"

NextStartup ==
  \/ checkAuthenticationAndModel
  \/ handleBiometricAuthentication
  \/ AuthenticateDone
  \/ ModelCheckDone
  \/ DownloadDone
  \/ ModelRecheckDone
  \/ retryModelDownload
  \/ RepoLoadDone

SpecStartup == InitStartup /\ [][NextStartup]_vars

\* ------------------------------------------- calls of modelDownloadService
\* The call of deleteModel that rejects.
DeleteFaults == {"none", "deleteAsync", "removeItem(downloaded)", "removeItem(version)"}

\* deleteModel: the file is deleted, then the two items are removed; a rejection is
\* rethrown and leaves the rest undone.
deleteModel(os, st, f) ==
  IF os = "web" THEN [threw |-> TRUE, st |-> st]
  ELSE IF f = "deleteAsync" THEN [threw |-> TRUE, st |-> st]
  ELSE IF f = "removeItem(downloaded)"
  THEN [threw |-> TRUE, st |-> [st EXCEPT !.file = "absent"]]
  ELSE IF f = "removeItem(version)"
  THEN [threw |-> TRUE, st |-> [st EXCEPT !.file = "absent", !.downloaded = "null"]]
  ELSE [threw |-> FALSE, st |-> NoModel]

ServiceUnchanged ==
  /\ UNCHANGED <<OS, biometricEnabled, isCheckingAuth, authenticationRequired,
                 isAuthenticated, authenticationError, isModelReady, isModelDownloading,
                 modelDownloadError, gatePc, lastAuth>>
  /\ UNCHANGED repoVars
  /\ UNCHANGED editorVars
  /\ UNCHANGED utilVars
  /\ UNCHANGED voiceVars

CallIsModelAvailable ==
  /\ gatePc = "service"
  /\ \E f \in CheckFaults :
       LET r == isModelAvailable(OS, Persisted, f)
       IN /\ SetPersisted(r.st)
          /\ lastCheck' = [done |-> TRUE, at |-> "service", before |-> Persisted,
                           failed |-> r.failed, available |-> r.available, after |-> r.st]
  /\ UNCHANGED lastDownload
  /\ ServiceUnchanged

CallDownloadModel ==
  /\ gatePc = "service"
  /\ \E f \in CheckFaults, t \in Transfers, g \in DownloadFaults, c \in CleanupFaults :
       LET r == downloadModel(OS, Persisted, f, t, g, c)
       IN /\ SetPersisted(r.after)
          /\ lastDownload' = r
  /\ UNCHANGED lastCheck
  /\ ServiceUnchanged

CallDeleteModel ==
  /\ gatePc = "service"
  /\ \E f \in DeleteFaults : SetPersisted(deleteModel(OS, Persisted, f).st)
  /\ UNCHANGED <<lastCheck, lastDownload>>
  /\ ServiceUnchanged

\* The service of a fresh installation, no screen mounted.
InitService ==
  /\ VoiceIdle
  /\ RepoIdle
  /\ EditorIdle
  /\ UtilsIdle
  /\ ListScreenInit
  /\ OS \in {"ios", "web"}
  /\ modelFile = NoModel.file
  /\ downloaded = NoModel.downloaded
  /\ version = NoModel.version
  /\ biometricEnabled = FALSE
  /\ gatePc = "service"

NextService ==
  \/ CallIsModelAvailable
  \/ CallDownloadModel
  \/ CallDeleteModel

SpecService == InitService /\ [][NextService]_vars

\* ------------------------------------------------- claims: the repository
Quiescent == pending = <<>>

Durable == loadNotesFromStorage(blob, TRUE)

\* C1 (as stated): whenever no call is in flight, the in-memory collection equals
\* the decoded content of the durable blob.
C1_MemoryEqualsBlob == Quiescent => notes = Durable

\* C1 (amended): whenever no call is in flight and the last load read the blob, or a
\* write has succeeded since, the in-memory collection equals the decoded content of
\* the durable blob; a failed write leaves both as they were.
C1_MemoryEqualsBlobOnceRead == (Quiescent /\ synced) => notes = Durable

\* C1 witness: a write has failed on a loaded, non-empty collection and nothing is in flight.
C1_FailedWriteSettled ==
  /\ Quiescent
  /\ synced
  /\ lastCall.wrote
  /\ ~lastCall.ok
  /\ notes # <<>>

\* C2: a create, update or delete whose durable write fails ends with an error
\* thrown to its caller and leaves the in-memory collection as it was.
C2_WriteFailureThrows ==
  (lastCall.op \in {"create", "update", "delete"} /\ lastCall.wrote /\ ~lastCall.ok)
    => (lastCall.result = "threw" /\ lastCall.memSame)

\* C3: whenever no call is in flight, the in-memory collection, and the durable one
\* once the blob has been read or written, is the loaded collection with every
\* successful call applied to it in turn.
C3_MutationsSerialized ==
  Quiescent => (notes = serial /\ (synced => Durable = serial))

\* C10: a load whose read or decode fails returns the empty list, sets the error
\* state and leaves the blob as it was.
C10_LoadFailureSignalled ==
  (lastLoad.done /\ lastLoad.failed)
    => (lastLoad.returned = <<>> /\ lastLoad.error # "null" /\ lastLoad.blobSame)

\* ------------------------------------------------ claims: the editor session
SavesInFlight == {i \in 1..Len(pending) : pending[i].op \in {"create", "update"}}

\* C4: within one editor session there are never two Repository save calls (create
\* or update) in flight at the same time.
C4_OneSaveInFlight == Cardinality(SavesInFlight) <= 1

\* C5: once the session is closed, it starts no Repository create or update.
C5_ClosedStartsNoSave == ~lastInvoke.afterClose

\* C6: whenever the debounce timer expires while the open session holds edits that
\* have not been saved, a Repository create or update is invoked (stated for the
\* sessions whose last auto-save, if any, was written).
C6_TimerExpirySaves == (lastFire.fired /\ lastFire.dirty /\ lastSave.ok) => lastFire.invoked

\* C7: the title and content a timer-triggered save passes to the Repository are the
\* buffer's title (trimmed) and content at the moment the timer fires.
C7_TimerSavesCurrentBuffer ==
  lastInvoke.src = "timer"
    => (lastInvoke.title = Trim(lastInvoke.bufTitle)
        /\ lastInvoke.content = lastInvoke.bufContent)

\* C7 witness: a timer-triggered save after a second keystroke restarted the timer.
C7_TimerSaveAfterTwoKeys ==
  /\ lastInvoke.src = "timer"
  /\ keys = 2
  /\ lastInvoke.content = <<"b">>
  /\ lastInvoke.title = <<"a">>

\* C8: when an auto-save fails, the durable write included, a save error is
\* surfaced, the buffer is kept and the session stays dirty.
C8_FailedSaveStaysDirty ==
  (lastSave.done /\ ~lastSave.ok)
    => (lastSave.alerted /\ lastSave.dirtyAfter /\ lastSave.bufferKept)

\* C9: a session without a keystroke or transcription is not dirty and has invoked
\* no Repository create or update, and the stored note it opened is as it was.
C9_UntouchedSessionIsReady ==
  ~typed
    => /\ ~hasUnsavedChanges
       /\ lastInvoke.op = "none"
       /\ \A i \in 1..Len(Durable) : Durable[i].id = StoredNote.id => Durable[i] = StoredNote

\* C31: an expiry of the debounce timer that ends a burst of keystrokes, with the
\* editor on screen, triggers one save.
C31_BurstSavesOnce ==
  (lastFire.fired /\ lastFire.open /\ lastFire.keys > lastFire.before) => lastFire.invoked

\* C32: a successful save during which no keystroke arrived leaves the session marked
\* as having no unsaved changes, and the editor on screen is never so marked while its
\* buffer differs from what the blob holds for the session's note.
C32_ReadyOnlyWhenSaved ==
  /\ (lastSave.done /\ lastSave.ok /\ lastSave.open /\ ~lastSave.edited)
       => ~lastSave.dirtyAfter
  /\ (Visible /\ ~hasUnsavedChanges /\ lastSave.done)
       => /\ findIndex(Durable, currentNoteIdRef) # 0
          /\ getNoteById(Durable, currentNoteIdRef).content = content
          /\ getNoteById(Durable, currentNoteIdRef).title \in {title, Trim(title)}

\* C33: a transcription result is appended to the content the buffer holds when the
\* result arrives, after a blank line unless that content is empty, and the append
\* marks the session dirty and restarts the timer.
C33_TranscriptAppended ==
  lastTranscript.done
    => /\ lastTranscript.newContent
            = IF lastTranscript.content = <<>> THEN lastTranscript.text
              ELSE lastTranscript.content \o <<"\n", "\n">> \o lastTranscript.text
       /\ lastTranscript.dirty
       /\ lastTranscript.timer

\* The session was opened on a route with a noteId and has not found its note.
OpenedUnfound == noteId \in {StoredNote.id, StaleId} /\ currentNoteIdRef = NoId

\* C34: a session opened for an id shows the spinner and reports nothing while the
\* notes are loading; once they are loaded without the id, not-found is signalled, the
\* editor is not usable, the dismissal of the alert closes the session, and the session
\* has invoked no create or update and has no timer set.
C34_NotFoundAfterLoad ==
  /\ (noteId # NoId /\ loading) => (~noteNotFound /\ initialLoadRef /\ ~Visible)
  /\ OpenedUnfound
       => /\ lastInvoke.op = "none"
          /\ SavesInFlight = {}
          /\ ~timer.set
          /\ ~hasUnsavedChanges
          /\ ~Visible
          /\ ~loading => noteNotFound
          /\ closed => lastExit.by = "alert"

\* C34 witness: a session opened for an id that is not stored has been closed by the
\* not-found alert, the blob as it was.
C34_StaleIdClosed ==
  /\ noteId = StaleId
  /\ ~loading
  /\ noteNotFound
  /\ closed
  /\ lastExit.by = "alert"
  /\ Len(Durable) = 1

C30_DeleteOnlyWithId ==
  lastExit.by = "trash"
    => /\ lastExit.call = "delete" <=> lastExit.hadId
       /\ lastExit.hadId => lastExit.id = lastExit.ref
       /\ ~lastExit.hadId => (lastExit.call = "none" /\ closed)
       /\ lastExit.settled => closed

\* C30 witness: the note the session had opened has been deleted and the session closed.
C30_DeletedAndClosed ==
  /\ lastExit.by = "trash"
  /\ lastExit.hadId
  /\ lastExit.settled
  /\ closed
  /\ findIndex(Durable, lastExit.id) = 0

C12_CreateThenGetById ==
  (lastCall.op = "create" /\ lastCall.ok)
    => /\ lastCall.found.id = lastCall.note.id
       /\ lastCall.found.content = lastCall.input.content
       /\ lastCall.found.title # <<>>
       /\ lastCall.found.createdAt = lastCall.found.updatedAt

\* C12 witness: a create with whitespace-only title and content has been written on
\* top of a stored note.
C12_CreatedOnStoredNote ==
  /\ lastCall.op = "create"
  /\ lastCall.ok
  /\ lastCall.input.content = <<" ", "\n">>
  /\ Len(notes) = 2

Unique(ns) == \A i, j \in 1..Len(ns) : i # j => ns[i].id # ns[j].id

\* C13: the ids of the notes of the live collection, in memory and in the blob, are
\* pairwise different in every reachable state.
C13_IdsUnique == Unique(notes) /\ Unique(Durable)

NonBlankTitles(ns) == \A i \in 1..Len(ns) : Trim(ns[i].title) # <<>>

\* C14: every note of the durable blob, and of the in-memory collection, has a title
\* that is not empty and not whitespace only.
C14_NoBlankTitlePersisted == NonBlankTitles(Durable) /\ NonBlankTitles(notes)

\* C14 witness: a create or update given a whitespace-only title has been written.
C14_BlankTitleWritten ==
  /\ lastCall.op \in {"create", "update"}
  /\ lastCall.ok
  /\ lastCall.input.title = <<" ">>
  /\ findIndex(Durable, lastCall.id) # 0

\* C15: an update of an existing note with an empty or whitespace-only title input
\* and content c yields a note whose title is generateTitleFromContent(c), whose
\* updatedAt is greater than the prior updatedAt when the clock has advanced since,
\* and whose createdAt and id are the prior ones.
C15_UpdateRegeneratesTitle ==
  (/\ lastCall.op = "update"
   /\ lastCall.wrote
   /\ lastCall.ok
   /\ lastCall.input.hasTitle
   /\ lastCall.input.hasContent
   /\ Trim(lastCall.input.title) = <<>>)
    => /\ lastCall.found = lastCall.note
       /\ lastCall.note.title = generateTitleFromContent(lastCall.input.content)
       /\ lastCall.at > lastCall.prior.updatedAt
             => lastCall.note.updatedAt > lastCall.prior.updatedAt
       /\ lastCall.note.createdAt = lastCall.prior.createdAt
       /\ lastCall.note.id = lastCall.prior.id

\* C15 witness: a note has been updated with a whitespace-only title and a content
\* whose first line is empty, after the clock advanced.
C15_UpdatedWithBlankTitle ==
  /\ lastCall.op = "update"
  /\ lastCall.ok
  /\ lastCall.input.title = <<" ">>
  /\ lastCall.note.title = <<"c">>
  /\ lastCall.at > lastCall.prior.updatedAt

OrderedStamps(ns) == \A i \in 1..Len(ns) : ns[i].updatedAt >= ns[i].createdAt

C17_DeleteIdempotent ==
  (lastCall.op = "delete" /\ lastCall.ok)
    => /\ lastCall.result = "returned"
       /\ lastCall.again
       /\ ~lastCall.live => lastCall.memSame

RECURSIVE FirstNonBlankLine(_)
FirstNonBlankLine(lines) ==
  IF Trim(Head(lines)) # <<>> THEN Trim(Head(lines)) ELSE FirstNonBlankLine(Tail(lines))

TitleOf(c) ==
  IF Trim(c) = <<>> THEN NewNoteTitle
  ELSE LET line == FirstNonBlankLine(Split(c))
       IN IF Len(line) <= 50 THEN line ELSE SubSeq(line, 1, 50) \o <<".", ".", ".">>

\* C19: the title generated from a content is the default 'New note' when the trimmed
\* content is empty; otherwise it is the first line that is not empty after trimming,
\* as it is when it has at most 50 characters, and its first 50 characters followed
\* by '...' when it has more.
C19_GeneratedTitle ==
  (utilArg.fn = "generateTitleFromContent" /\ utilOut.done)
    => utilOut.title = TitleOf(utilArg.content)

\* C19 witness: a title has been cut from a first non-empty line of 51 characters
\* that follows a blank line.
C19_LongLineCut ==
  /\ utilArg.fn = "generateTitleFromContent"
  /\ utilOut.done
  /\ utilArg.content = <<" ", "\n", " ">> \o Repeat("a", 51) \o <<"\n", "b">>
  /\ Len(utilOut.title) = 53

\* The category of a number of whole calendar days.
CategoryOfDays(diffDays) ==
  CASE diffDays = 0 -> "Today"
    [] diffDays = 1 -> "Yesterday"
    [] 1 < diffDays /\ diffDays <= 7 -> "This week"
    [] 7 < diffDays /\ diffDays <= 30 -> "This month"
    [] diffDays > 30 -> "Older"
    [] OTHER -> "none"

\* C20: the category of a note is the one of diffDays, the number of whole calendar
\* days between the local date of its updatedAt and today's local date: Today for 0,
\* Yesterday for 1, This week for 2..7, This month for 8..30, Older above 30.
C20_CategoryByCalendarDays ==
  (utilArg.fn = "getDateCategory" /\ utilOut.done)
    => utilOut.category
         = CategoryOfDays(LocalDay(utilArg.now, utilArg.zone)
                            - LocalDay(utilArg.date, utilArg.zone))

Count(ns, note) == Cardinality({i \in 1..Len(ns) : ns[i] = note})

NewestFirst(ns) == \A i \in 1..(Len(ns) - 1) : ns[i].updatedAt >= ns[i + 1].updatedAt

\* C21: every note that passes the search filter is in exactly one of the five
\* buckets, as many times as it passes; no other note is in a bucket; and each bucket
\* is ordered by updatedAt, newest first.
C21_ViewPartitionsFiltered ==
  (utilArg.fn = "categorizedNotes" /\ utilOut.done)
    => /\ \A note \in ListedNotes :
            Count(utilOut.filteredNotes, note)
              = Count(utilOut.categorizedNotes[1] \o utilOut.categorizedNotes[2]
                        \o utilOut.categorizedNotes[3] \o utilOut.categorizedNotes[4]
                        \o utilOut.categorizedNotes[5], note)
       /\ \A c \in 1..5 : NewestFirst(utilOut.categorizedNotes[c])
       /\ \A c \in 1..5 : \A i \in 1..Len(utilOut.categorizedNotes[c]) :
            getDateCategory(utilOut.categorizedNotes[c][i].updatedAt, utilArg.now,
                            utilArg.zone) = CATEGORY_ORDER[c]

\* C21 witness: two notes of today, the older one first in the collection, are listed
\* under Today with the newer one first, and a third note under another category.
C21_TodayBucketSorted ==
  /\ utilArg.fn = "categorizedNotes"
  /\ utilOut.done
  /\ Len(utilArg.notes) = 3
  /\ utilArg.notes[1].updatedAt < utilArg.notes[2].updatedAt
  /\ Len(utilOut.categorizedNotes[1]) = 2
  /\ Len(utilOut.categorizedNotes[4]) = 1

SameLetter(x, y) == x = y \/ {x, y} \in {{"a", "A"}, {"b", "B"}}

ContainsIgnoringCase(str, sub) ==
  \E i \in 0..(Len(str) - Len(sub)) : \A k \in 1..Len(sub) : SameLetter(str[i + k], sub[k])

GateFailed == modelDownloadError # "null" /\ ~isModelReady /\ gatePc = "idle"
GateDownloading == isModelDownloading /\ ~isModelReady /\ modelDownloadError = "null"

LoadStarted == lastLoad.done \/ \E i \in 1..Len(pending) : pending[i].op = "load"
ValidationStarted ==
  lastCheck.done \/ isModelReady \/ gatePc \in {"isModelAvailable", "downloadModel", "revalidate"}

\* C23: the gates complete in a fixed order: validateAndEnsureModel does not start before
\* the user is authenticated or authentication is not required, and the load of the
\* notes does not start before the model is ready.
C23_GatesInOrder ==
  /\ ValidationStarted => isAuthenticated
  /\ LoadStarted => isModelReady

C25_AvailableOnlyIfPresent ==
  /\ lastDownload.wroteFlag => (lastDownload.transferred /\ lastDownload.present)
  /\ lastDownload.wroteTag => lastDownload.wroteFlag
  /\ (isModelReady /\ lastDownload.started)
       => /\ lastDownload.present
          /\ lastCheck.at = "revalidate"
          /\ lastCheck.before.file # "absent"
  /\ (lastDownload.done /\ lastDownload.transferred /\ ~lastDownload.present)
       => /\ lastDownload.threw
          /\ ~lastDownload.wroteFlag
          /\ ~lastDownload.wroteTag
          /\ lastDownload.swept => lastDownload.after.downloaded = "null"
          /\ ~isModelReady
          /\ modelDownloadError # "null"

C25_MissingFileFailed ==
  /\ lastDownload.done
  /\ lastDownload.transferred
  /\ ~lastDownload.present
  /\ modelDownloadError = "Download completed but file not found"
  /\ GateFailed
  /\ downloaded = "null"

\* C26: whenever the screen reports a failed installation, the model file is absent and
\* neither the installed flag nor the version is stored.
C26_FailedAttemptLeavesNothing ==
  GateFailed => Persisted = NoModel

\* C27: while the installation has failed or is downloading, the overlay does not replace
\* the list screen.
C27_ListUsableWithoutModel ==
  (GateFailed \/ GateDownloading) => ~ModelOverlayShown

\* C28: once authenticate has found the capabilities unreadable or the hardware absent,
\* the user is let in without authentication.
C28_UnavailableHardwarePasses ==
  (lastAuth.done /\ lastAuth.hardware \in {"rejects", "absent"}) => isAuthenticated

\* ------------------------------------------------- claims: the stored blob
Malformed(j) == j.createdAt[1] # "iso" \/ j.updatedAt[1] # "iso"

\* C37: once the note of the session has been deleted from the editor and the write
\* of the delete has succeeded, the stored collection does not hold that note again.
C37_DeletedStaysDeleted ==
  (lastExit.by = "trash" /\ lastExit.deleted) => findIndex(Durable, lastExit.id) = 0

C38_OneCreate == lastInvoke.creates <= 1
C38_IdIsStored ==
  (~closed /\ currentNoteIdRef # NoId) => findIndex(Durable, currentNoteIdRef) # 0

\* C38: a session calls addNote at most once, and the note id of an open session is
\* the id of a note of the stored collection.
C38_OneNotePerSession == C38_OneCreate /\ C38_IdIsStored

\* C39: isModelAvailable answers true only when the whole model file is at the model
\* path, never for a missing or partly written file.
C39_AvailableOnlyIfComplete ==
  (lastCheck.done /\ lastCheck.available) => lastCheck.before.file = "complete"

\* C40: when the last load could not read or decode a stored blob that is not empty,
\* that blob is still the stored one as long as the repository reports no error.
C40_UnreadBlobKept ==
  (lastLoad.done /\ lastLoad.failed /\ lastLoad.blob.kind # "absent" /\ error = "null")
    => blob = lastLoad.blob

\* C35: a load of a stored text with a malformed record returns no notes: no returned
\* collection holds a note with an invalid timestamp.
C35_MalformedFailsLoad ==
  (utilArg.fn = "loadNotesFromStorage" /\ utilOut.done)
    => /\ (\E i \in 1..Len(utilArg.json) : Malformed(utilArg.json[i])) => utilOut.notes = <<>>
       /\ \A i \in 1..Len(utilOut.notes) :
            /\ utilOut.notes[i].createdAt # InvalidDate
            /\ utilOut.notes[i].updatedAt # InvalidDate

\* C36: the title generated for an empty content is the literal the editor pre-fills
\* as the title of a new note.
C36_DefaultTitleIsPrefill ==
  (utilArg.fn = "generateTitleFromContent" /\ utilOut.done /\ Trim(utilArg.content) = <<>>)
    => utilOut.title = NewThoughtTitle

====
